---- MODULE Spec2Model ----
(***************************************************************************)
(* Bugify bug tracker back end (FastAPI handlers over three MongoDB        *)
(* collections: users, projects, bugs).                                    *)
(*                                                                         *)
(* A collection is a sequence of documents in insertion order; a document  *)
(* is a record.  A Mongo query is a record of field/value pairs that a     *)
(* document must equal.  The fields title, description and joined_date are *)
(* carried by no condition of the handlers modelled here and are left out  *)
(* of the documents.                                                       *)
(*                                                                         *)
(* Time is counted in instants of the server's clock.  The seeded bugs     *)
(* carry literal timestamps, in chronological order                        *)
(*   0 = 2025-10-06T12:00:00Z, 1 = 2025-10-07T09:30:00Z,                   *)
(*   2 = 2025-10-07T10:00:00Z,                                             *)
(* and the server starts at a later instant.  datetime.utcnow() reads the  *)
(* clock; the two reads of one handler fall into one instant.              *)
(*                                                                         *)
(* Each handler is modelled as its router defines it and as the tests call *)
(* it; app/main.py mounts only the auth, dashboard and bugs routers.       *)
(***************************************************************************)
EXTENDS Integers, Sequences, FiniteSets, TLC

\* Python None in a string-valued field, and in an Optional[int] query parameter.
None == "None"
NoneInt == -1

\* Largest bug id / project id a creation may allocate (caps max(existing)+1).
MaxBugId == 3
MaxProjectId == 4

\* Largest number of stored users (caps register).
MaxUsers == 6

\* Last instant the clock reaches (caps Tick).
MaxClock == 5

VARIABLES
    users,              \* collection "users"
    projects,           \* collection "projects"
    bugs,               \* collection "bugs"
    response,           \* the last HTTP response: [op, code, body]
    issuedBugIds,       \* history: every id a bug was ever stored with
    issuedProjectIds,   \* history: every id a project was ever stored with
    pc,                 \* per in-flight request: the store call it performs next
    loc,                \* per in-flight request: the handler's local variables
    clock               \* the instant datetime.utcnow() returns

vars == <<users, projects, bugs, response, issuedBugIds, issuedProjectIds, pc, loc,
          clock>>
store == <<users, projects, bugs>>

\* Request slots of the interleaved specification.
Procs == {"r1", "r2"}

Statuses == {"Open", "In Progress", "Resolved", "Closed"}
Priorities == {"High", "Medium", "Low"}
Roles == {"admin", "developer", "user"}

----------------------------------------------------------------------------
(* Seed data                                                               *)

\* bcrypt.hashpw(password, salt): the digest carries its salt and is
\* determined by the salt and the password (passwords within bcrypt's 72
\* bytes); gensalt() draws the salt.
get_password_hash(password, salt) == [salt |-> salt, of |-> password]

\* bcrypt.checkpw(plain, digest): hashes plain with the salt of the digest
\* and compares the result with the digest.
verify_password(plain_password, hashed_password) ==
    get_password_hash(plain_password, hashed_password.salt) = hashed_password

default_users ==
    << [id |-> "admin1", name |-> "Sarah Admin", email |-> "admin@bugify.com",
        hashed_password |-> get_password_hash("admin123", "salt1"), role |-> "admin"],
       [id |-> "dev1", name |-> "John Developer", email |-> "dev1@bugify.com",
        hashed_password |-> get_password_hash("dev123", "salt2"), role |-> "developer"],
       [id |-> "dev2", name |-> "Emma Developer", email |-> "dev2@bugify.com",
        hashed_password |-> get_password_hash("dev123", "salt3"), role |-> "developer"],
       [id |-> "user1", name |-> "Mike User", email |-> "user@bugify.com",
        hashed_password |-> get_password_hash("user123", "salt4"), role |-> "user"] >>

default_projects ==
    << [id |-> 1, name |-> "Bugify Dashboard",  created_by |-> "admin1"],
       [id |-> 2, name |-> "Bugify API",        created_by |-> "admin1"],
       [id |-> 3, name |-> "Bugify Mobile App", created_by |-> "admin1"] >>

default_bugs ==
    << [id |-> 1, project_id |-> 1, project_name |-> "Bugify Dashboard",
        status |-> "Open", priority |-> "High",
        reported_by |-> "user1", assigned_to |-> "dev1",
        created_at |-> 2, updated_at |-> 2],
       [id |-> 2, project_id |-> 1, project_name |-> "Bugify Dashboard",
        status |-> "In Progress", priority |-> "Medium",
        reported_by |-> "admin1", assigned_to |-> "dev1",
        created_at |-> 0, updated_at |-> 1] >>

----------------------------------------------------------------------------
(* The document store calls the handlers make                              *)

Range(s) == {s[i] : i \in DOMAIN s}

\* A document matches a query when it equals the query on every queried field.
Matches(doc, query) == \A f \in DOMAIN query : doc[f] = query[f]

\* collection.find(query): the matching documents, in collection order.
find(coll, query) == SelectSeq(coll, LAMBDA d : Matches(d, query))

\* collection.count_documents(query)
count_documents(coll, query) == Len(find(coll, query))

\* `if not doc` after collection.find_one(query)
Found(coll, query) == find(coll, query) # <<>>

\* collection.find_one(query), when a document matches: the first match.
find_one(coll, query) == Head(find(coll, query))

\* Index of the first document matching the query (0 when none matches).
FirstMatch(coll, query) ==
    IF Found(coll, query)
    THEN CHOOSE i \in DOMAIN coll :
            /\ Matches(coll[i], query)
            /\ \A j \in 1..(i - 1) : ~Matches(coll[j], query)
    ELSE 0

\* collection.update_one(query, {"$set": set}): the first match gets the
\* fields of `set`; nothing is written when no document matches.
update_one(coll, query, set) ==
    LET i == FirstMatch(coll, query) IN
    IF i = 0 THEN coll
    ELSE [coll EXCEPT ![i] =
            [f \in DOMAIN coll[i] |-> IF f \in DOMAIN set THEN set[f] ELSE coll[i][f]]]

\* collection.delete_one(query): the first match is removed.
delete_one(coll, query) ==
    LET i == FirstMatch(coll, query) IN
    IF i = 0 THEN coll
    ELSE SubSeq(coll, 1, i - 1) \o SubSeq(coll, i + 1, Len(coll))

\* Mutant of insert_one: a unique index on "id" refuses a second document.
insert_one_UniqueId(coll, doc) ==
    IF \E d \in Range(coll) : d.id = doc.id THEN coll ELSE Append(coll, doc)

\* collection.insert_one(doc): no unique index exists on "id".
insert_one(coll, doc) == Append(coll, doc)

\* Mutant of NextId: the next id taken from the number of stored documents.
NextId_Count(coll) == Len(coll) + 1

\* find_one(sort=[("id", -1)]) followed by  next_id = latest["id"] + 1 if latest else 1
NextId(coll) ==
    IF coll = <<>> THEN 1
    ELSE (CHOOSE m \in {d.id : d \in Range(coll)} :
            \A d \in Range(coll) : d.id <= m) + 1

Ids(coll) == {d.id : d \in Range(coll)}

----------------------------------------------------------------------------
(* State after construction: the seeded store, no request in flight        *)

NoLocals == [op |-> "idle"]

Init ==
    /\ users = default_users
    /\ projects = default_projects
    /\ bugs = default_bugs
    /\ response = [op |-> "init", code |-> 0, body |-> <<>>]
    /\ issuedBugIds = Ids(default_bugs)
    /\ issuedProjectIds = Ids(default_projects)
    /\ pc = [p \in Procs |-> "idle"]
    /\ loc = [p \in Procs |-> NoLocals]
    /\ clock = 3

Respond(op, code) == response' = [op |-> op, code |-> code, body |-> <<>>]

\* raise HTTPException(status_code=code, detail=detail): the JSON body is
\* {"detail": detail}.
Error(op, code, detail) == [op |-> op, code |-> code, body |-> [detail |-> detail]]
RespondError(op, code, detail) == response' = Error(op, code, detail)

----------------------------------------------------------------------------
(* POST /bugs                                                              *)

\* Mutant of create_bug: the new bug is assigned to its reporter.
create_bug_ReporterAssigned(current_user, bug_data) ==
    /\ UNCHANGED <<users, projects, issuedProjectIds, pc, loc, clock>>
    /\ IF ~Found(projects, [id |-> bug_data.project_id])
       THEN /\ Respond("create_bug", 404)
            /\ UNCHANGED <<bugs, issuedBugIds>>
       ELSE LET project == find_one(projects, [id |-> bug_data.project_id])
                next_id == NextId(bugs)
                new_bug == [id |-> next_id,
                            project_id |-> bug_data.project_id,
                            project_name |-> project.name,
                            status |-> "Open",
                            priority |-> bug_data.priority,
                            reported_by |-> current_user.id,
                            assigned_to |-> current_user.id,
                            created_at |-> clock,
                            updated_at |-> clock]
            IN  /\ next_id <= MaxBugId
                /\ bugs' = insert_one(bugs, new_bug)
                /\ issuedBugIds' = issuedBugIds \cup {next_id}
                /\ Respond("create_bug", 201)

\* Mutant of create_bug: the project is not looked up; the name is left empty.
create_bug_NoProjectCheck(current_user, bug_data) ==
    /\ UNCHANGED <<users, projects, issuedProjectIds, pc, loc, clock>>
    /\ LET next_id == NextId(bugs)
           new_bug == [id |-> next_id,
                       project_id |-> bug_data.project_id,
                       project_name |-> None,
                       status |-> "Open",
                       priority |-> bug_data.priority,
                       reported_by |-> current_user.id,
                       assigned_to |-> None,
                       created_at |-> clock,
                       updated_at |-> clock]
       IN  /\ next_id <= MaxBugId
           /\ bugs' = insert_one(bugs, new_bug)
           /\ issuedBugIds' = issuedBugIds \cup {next_id}
           /\ Respond("create_bug", 201)

\* Mutant of create_bug: the name of a seeded project id is the seeded name.
create_bug_SeededName(current_user, bug_data) ==
    /\ UNCHANGED <<users, projects, issuedProjectIds, pc, loc, clock>>
    /\ IF ~Found(projects, [id |-> bug_data.project_id])
       THEN /\ Respond("create_bug", 404)
            /\ UNCHANGED <<bugs, issuedBugIds>>
       ELSE LET project == IF Found(default_projects, [id |-> bug_data.project_id])
                           THEN find_one(default_projects, [id |-> bug_data.project_id])
                           ELSE find_one(projects, [id |-> bug_data.project_id])
                next_id == NextId(bugs)
                new_bug == [id |-> next_id,
                            project_id |-> bug_data.project_id,
                            project_name |-> project.name,
                            status |-> "Open",
                            priority |-> bug_data.priority,
                            reported_by |-> current_user.id,
                            assigned_to |-> None,
                            created_at |-> clock,
                            updated_at |-> clock]
            IN  /\ next_id <= MaxBugId
                /\ bugs' = insert_one(bugs, new_bug)
                /\ issuedBugIds' = issuedBugIds \cup {next_id}
                /\ Respond("create_bug", 201)

create_bug(current_user, bug_data) ==
    /\ UNCHANGED <<users, projects, issuedProjectIds, pc, loc, clock>>
    /\ IF ~Found(projects, [id |-> bug_data.project_id])
       THEN /\ Respond("create_bug", 404)
            /\ UNCHANGED <<bugs, issuedBugIds>>
       ELSE LET project == find_one(projects, [id |-> bug_data.project_id])
                next_id == NextId(bugs)
                new_bug == [id |-> next_id,
                            project_id |-> bug_data.project_id,
                            project_name |-> project.name,
                            status |-> "Open",
                            priority |-> bug_data.priority,
                            reported_by |-> current_user.id,
                            assigned_to |-> None,
                            created_at |-> clock,
                            updated_at |-> clock]
            IN  /\ next_id <= MaxBugId
                /\ bugs' = insert_one(bugs, new_bug)
                /\ issuedBugIds' = issuedBugIds \cup {next_id}
                /\ Respond("create_bug", 201)

----------------------------------------------------------------------------
(* PUT /bugs/{bug_id}                                                      *)

\* Mutant of update_dict: every field of the request body is written.
update_dict_AllFields(bug_update) ==
    [f \in {"updated_at", "status", "assigned_to", "priority"}
        |-> IF f = "updated_at" THEN clock ELSE bug_update[f]]

\* update_dict: updated_at, and the fields of the request body that are not
\* None.
update_dict(bug_update) ==
    [f \in {"updated_at"} \cup
            {g \in {"status", "assigned_to", "priority"} : bug_update[g] # None}
        |-> IF f = "updated_at" THEN clock ELSE bug_update[f]]

\* Mutant of update_bug: the role of the caller is not looked at.
update_bug_NoRoleCheck(current_user, bug_id, bug_update) ==
    /\ UNCHANGED <<users, projects, issuedBugIds, issuedProjectIds, pc, loc, clock>>
    /\ IF ~Found(bugs, [id |-> bug_id])
       THEN Respond("update_bug", 404) /\ UNCHANGED bugs
       ELSE /\ bugs' = update_one(bugs, [id |-> bug_id], update_dict(bug_update))
            /\ Respond("update_bug", 200)

update_bug(current_user, bug_id, bug_update) ==
    /\ UNCHANGED <<users, projects, issuedBugIds, issuedProjectIds, pc, loc, clock>>
    /\ IF ~Found(bugs, [id |-> bug_id])
       THEN Respond("update_bug", 404) /\ UNCHANGED bugs
       ELSE IF current_user.role = "user"
       THEN Respond("update_bug", 403) /\ UNCHANGED bugs
       ELSE /\ bugs' = update_one(bugs, [id |-> bug_id], update_dict(bug_update))
            /\ Respond("update_bug", 200)

----------------------------------------------------------------------------
(* DELETE /bugs/{bug_id}                                                   *)

\* Mutant of delete_bug: every caller whose role is not user may delete.
delete_bug_DeveloperToo(current_user, bug_id) ==
    /\ UNCHANGED <<users, projects, issuedBugIds, issuedProjectIds, pc, loc, clock>>
    /\ IF current_user.role = "user"
       THEN Respond("delete_bug", 403) /\ UNCHANGED bugs
       ELSE IF count_documents(bugs, [id |-> bug_id]) = 0
       THEN Respond("delete_bug", 404) /\ UNCHANGED bugs
       ELSE /\ bugs' = delete_one(bugs, [id |-> bug_id])
            /\ Respond("delete_bug", 204)

delete_bug(current_user, bug_id) ==
    /\ UNCHANGED <<users, projects, issuedBugIds, issuedProjectIds, pc, loc, clock>>
    /\ IF current_user.role # "admin"
       THEN Respond("delete_bug", 403) /\ UNCHANGED bugs
       ELSE IF count_documents(bugs, [id |-> bug_id]) = 0   \* deleted_count == 0
       THEN Respond("delete_bug", 404) /\ UNCHANGED bugs
       ELSE /\ bugs' = delete_one(bugs, [id |-> bug_id])
            /\ Respond("delete_bug", 204)

----------------------------------------------------------------------------
(* PUT /manage/bugs/{bug_id}/assign                                        *)

\* Python truthiness of an Optional[str]: None and "" are falsy.
Truthy(s) == s # None /\ s # ""

\* Mutant of assign_bug_to_developer: updated_at is not written.
assign_bug_to_developer_NoStamp(current_user, bug_id, assigned_to) ==
    /\ UNCHANGED <<users, projects, issuedBugIds, issuedProjectIds, pc, loc, clock>>
    /\ IF current_user.role # "admin"
       THEN Respond("assign_bug_to_developer", 403) /\ UNCHANGED bugs
       ELSE IF ~Found(bugs, [id |-> bug_id])
       THEN Respond("assign_bug_to_developer", 404) /\ UNCHANGED bugs
       ELSE IF Truthy(assigned_to)
               /\ ~Found(users, [id |-> assigned_to, role |-> "developer"])
       THEN Respond("assign_bug_to_developer", 404) /\ UNCHANGED bugs
       ELSE /\ bugs' = update_one(bugs, [id |-> bug_id], [assigned_to |-> assigned_to])
            /\ Respond("assign_bug_to_developer", 200)

\* Mutant of assign_bug_to_developer: the assignment is written before the
\* developer is looked up.
assign_bug_to_developer_WritesFirst(current_user, bug_id, assigned_to) ==
    /\ UNCHANGED <<users, projects, issuedBugIds, issuedProjectIds, pc, loc, clock>>
    /\ IF current_user.role # "admin"
       THEN Respond("assign_bug_to_developer", 403) /\ UNCHANGED bugs
       ELSE IF ~Found(bugs, [id |-> bug_id])
       THEN Respond("assign_bug_to_developer", 404) /\ UNCHANGED bugs
       ELSE /\ bugs' = update_one(bugs, [id |-> bug_id],
                              [assigned_to |-> assigned_to, updated_at |-> clock])
            /\ IF Truthy(assigned_to)
                  /\ ~Found(users, [id |-> assigned_to, role |-> "developer"])
               THEN Respond("assign_bug_to_developer", 404)
               ELSE Respond("assign_bug_to_developer", 200)

assign_bug_to_developer(current_user, bug_id, assigned_to) ==
    /\ UNCHANGED <<users, projects, issuedBugIds, issuedProjectIds, pc, loc, clock>>
    /\ IF current_user.role # "admin"
       THEN Respond("assign_bug_to_developer", 403) /\ UNCHANGED bugs
       ELSE IF ~Found(bugs, [id |-> bug_id])
       THEN Respond("assign_bug_to_developer", 404) /\ UNCHANGED bugs
       ELSE IF Truthy(assigned_to)
               /\ ~Found(users, [id |-> assigned_to, role |-> "developer"])
       THEN Respond("assign_bug_to_developer", 404) /\ UNCHANGED bugs
       ELSE /\ bugs' = update_one(bugs, [id |-> bug_id],
                              [assigned_to |-> assigned_to, updated_at |-> clock])
            /\ Respond("assign_bug_to_developer", 200)

----------------------------------------------------------------------------
(* PUT /manage/bugs/{bug_id}/status                                        *)

update_bug_status_admin(current_user, bug_id, new_status) ==
    /\ UNCHANGED <<users, projects, issuedBugIds, issuedProjectIds, pc, loc, clock>>
    /\ IF current_user.role # "admin"
       THEN Respond("update_bug_status_admin", 403) /\ UNCHANGED bugs
       ELSE IF ~Found(bugs, [id |-> bug_id])
       THEN Respond("update_bug_status_admin", 404) /\ UNCHANGED bugs
       ELSE /\ bugs' = update_one(bugs, [id |-> bug_id],
                              [status |-> new_status, updated_at |-> clock])
            /\ Respond("update_bug_status_admin", 200)

----------------------------------------------------------------------------
(* PUT /mybugs/{bug_id}/status                                             *)

\* Mutant of update_my_bug_status: the bug is looked up by id alone and a
\* bug assigned to somebody else is refused with its own answer.
update_my_bug_status_TellsExistence(current_user, bug_id, new_status) ==
    /\ UNCHANGED <<users, projects, issuedBugIds, issuedProjectIds, pc, loc, clock>>
    /\ IF current_user.role # "developer"
       THEN /\ RespondError("update_my_bug_status", 403,
                            "Only developers can update bug status")
            /\ UNCHANGED bugs
       ELSE IF ~Found(bugs, [id |-> bug_id])
       THEN /\ RespondError("update_my_bug_status", 404,
                            "Bug not found or not assigned to you")
            /\ UNCHANGED bugs
       ELSE IF find_one(bugs, [id |-> bug_id]).assigned_to # current_user.id
       THEN /\ RespondError("update_my_bug_status", 403, "Bug is not assigned to you")
            /\ UNCHANGED bugs
       ELSE /\ bugs' = update_one(bugs, [id |-> bug_id],
                              [status |-> new_status, updated_at |-> clock])
            /\ Respond("update_my_bug_status", 200)

\* Mutant of update_my_bug_status: a closed bug is not reopened.
update_my_bug_status_NoReopen(current_user, bug_id, new_status) ==
    /\ UNCHANGED <<users, projects, issuedBugIds, issuedProjectIds, pc, loc, clock>>
    /\ IF current_user.role # "developer"
       THEN /\ RespondError("update_my_bug_status", 403,
                            "Only developers can update bug status")
            /\ UNCHANGED bugs
       ELSE IF ~Found(bugs, [id |-> bug_id, assigned_to |-> current_user.id])
       THEN /\ RespondError("update_my_bug_status", 404,
                            "Bug not found or not assigned to you")
            /\ UNCHANGED bugs
       ELSE IF find_one(bugs, [id |-> bug_id]).status = "Closed" /\ new_status # "Closed"
       THEN /\ RespondError("update_my_bug_status", 400, "Bug is closed")
            /\ UNCHANGED bugs
       ELSE /\ bugs' = update_one(bugs, [id |-> bug_id],
                              [status |-> new_status, updated_at |-> clock])
            /\ Respond("update_my_bug_status", 200)

update_my_bug_status(current_user, bug_id, new_status) ==
    /\ UNCHANGED <<users, projects, issuedBugIds, issuedProjectIds, pc, loc, clock>>
    /\ IF current_user.role # "developer"
       THEN /\ RespondError("update_my_bug_status", 403,
                            "Only developers can update bug status")
            /\ UNCHANGED bugs
       ELSE IF ~Found(bugs, [id |-> bug_id, assigned_to |-> current_user.id])
       THEN /\ RespondError("update_my_bug_status", 404,
                            "Bug not found or not assigned to you")
            /\ UNCHANGED bugs
       ELSE /\ bugs' = update_one(bugs, [id |-> bug_id],
                              [status |-> new_status, updated_at |-> clock])
            /\ Respond("update_my_bug_status", 200)

----------------------------------------------------------------------------
(* POST /projects                                                          *)

\* Mutant of create_project: the role of the caller is not looked at.
create_project_NoRoleCheck(current_user, name) ==
    /\ UNCHANGED <<users, bugs, issuedBugIds, pc, loc, clock>>
    /\ IF Found(projects, [name |-> name])
       THEN Respond("create_project", 400) /\ UNCHANGED <<projects, issuedProjectIds>>
       ELSE LET next_id == NextId(projects)
                new_project == [id |-> next_id, name |-> name,
                                created_by |-> current_user.id]
            IN  /\ next_id <= MaxProjectId
                /\ projects' = insert_one(projects, new_project)
                /\ issuedProjectIds' = issuedProjectIds \cup {next_id}
                /\ Respond("create_project", 201)

\* Mutant of create_project: no look-up of the name before the insert.
create_project_NoNameCheck(current_user, name) ==
    /\ UNCHANGED <<users, bugs, issuedBugIds, pc, loc, clock>>
    /\ IF current_user.role # "admin"
       THEN Respond("create_project", 403) /\ UNCHANGED <<projects, issuedProjectIds>>
       ELSE LET next_id == NextId(projects)
                new_project == [id |-> next_id, name |-> name,
                                created_by |-> current_user.id]
            IN  /\ next_id <= MaxProjectId
                /\ projects' = insert_one(projects, new_project)
                /\ issuedProjectIds' = issuedProjectIds \cup {next_id}
                /\ Respond("create_project", 201)

create_project(current_user, name) ==
    /\ UNCHANGED <<users, bugs, issuedBugIds, pc, loc, clock>>
    /\ IF current_user.role # "admin"
       THEN Respond("create_project", 403) /\ UNCHANGED <<projects, issuedProjectIds>>
       ELSE IF Found(projects, [name |-> name])
       THEN Respond("create_project", 400) /\ UNCHANGED <<projects, issuedProjectIds>>
       ELSE LET next_id == NextId(projects)
                new_project == [id |-> next_id, name |-> name,
                                created_by |-> current_user.id]
            IN  /\ next_id <= MaxProjectId
                /\ projects' = insert_one(projects, new_project)
                /\ issuedProjectIds' = issuedProjectIds \cup {next_id}
                /\ Respond("create_project", 201)

----------------------------------------------------------------------------
(* DELETE /projects/{project_id}                                           *)

\* Mutant of delete_project: the count of referencing bugs is not consulted.
delete_project_NoBugCount(current_user, project_id) ==
    /\ UNCHANGED <<users, bugs, issuedBugIds, issuedProjectIds, pc, loc, clock>>
    /\ IF current_user.role # "admin"
       THEN Respond("delete_project", 403) /\ UNCHANGED projects
       ELSE IF ~Found(projects, [id |-> project_id])
       THEN Respond("delete_project", 404) /\ UNCHANGED projects
       ELSE /\ projects' = delete_one(projects, [id |-> project_id])
            /\ Respond("delete_project", 200)

delete_project(current_user, project_id) ==
    /\ UNCHANGED <<users, bugs, issuedBugIds, issuedProjectIds, pc, loc, clock>>
    /\ IF current_user.role # "admin"
       THEN Respond("delete_project", 403) /\ UNCHANGED projects
       ELSE IF ~Found(projects, [id |-> project_id])
       THEN Respond("delete_project", 404) /\ UNCHANGED projects
       ELSE IF count_documents(bugs, [project_id |-> project_id]) > 0
       THEN Respond("delete_project", 400) /\ UNCHANGED projects
       ELSE /\ projects' = delete_one(projects, [id |-> project_id])
            /\ Respond("delete_project", 200)

----------------------------------------------------------------------------
(* GET /dashboard/bugs                                                     *)

EmptyQuery == [f \in {} |-> None]

\* `if project_id:` -- None and 0 add no condition.
ProjectFilter(project_id) ==
    IF project_id # NoneInt /\ project_id # 0
    THEN [project_id |-> project_id] ELSE EmptyQuery

\* `if status and status != "all":` -- None, "" and "all" add no condition.
StatusFilter(status) ==
    IF Truthy(status) /\ status # "all" THEN [status |-> status] ELSE EmptyQuery

\* Mutant of RoleScope: the query is never narrowed to the caller's reports.
RoleScope_None(current_user) == EmptyQuery

\* `if current_user["role"] == "user": query["reported_by"] = current_user["id"]`
RoleScope(current_user) ==
    IF current_user.role = "user"
    THEN [reported_by |-> current_user.id] ELSE EmptyQuery

\* The response body: the documents of bugs_collection.find(query), in order.
get_bugs_body(current_user, project_id, status) ==
    LET query == RoleScope(current_user) @@ StatusFilter(status)
                    @@ ProjectFilter(project_id)
    IN  find(bugs, query)

get_bugs(current_user, project_id, status) ==
    /\ UNCHANGED <<users, projects, bugs, issuedBugIds, issuedProjectIds, pc, loc, clock>>
    /\ response' = [op |-> "get_bugs", code |-> 200,
                    body |-> get_bugs_body(current_user, project_id, status)]

----------------------------------------------------------------------------
(* GET /dashboard/stats                                                    *)

\* Mutant of stats_body: total is counted over all bugs, not over the query.
stats_body_TotalOverAll(current_user) ==
    LET query == RoleScope(current_user)
    IN  [total |-> count_documents(bugs, EmptyQuery),
         open |-> count_documents(bugs, [status |-> "Open"] @@ query),
         in_progress |-> count_documents(bugs, [status |-> "In Progress"] @@ query),
         resolved |-> count_documents(bugs, [status |-> "Resolved"] @@ query),
         closed |-> count_documents(bugs, [status |-> "Closed"] @@ query)]

\* The response body: five count_documents calls, each {**query, "status": s}.
stats_body(current_user) ==
    LET query == RoleScope(current_user)
    IN  [total |-> count_documents(bugs, query),
         open |-> count_documents(bugs, [status |-> "Open"] @@ query),
         in_progress |-> count_documents(bugs, [status |-> "In Progress"] @@ query),
         resolved |-> count_documents(bugs, [status |-> "Resolved"] @@ query),
         closed |-> count_documents(bugs, [status |-> "Closed"] @@ query)]

get_dashboard_stats(current_user) ==
    /\ UNCHANGED <<users, projects, bugs, issuedBugIds, issuedProjectIds, pc, loc, clock>>
    /\ response' = [op |-> "get_dashboard_stats", code |-> 200,
                    body |-> stats_body(current_user)]

----------------------------------------------------------------------------
(* GET /bugs/{bug_id}                                                      *)

\* Mutant of get_bug_result: a user-role caller is shown any stored bug.
get_bug_result_NoOwnerCheck(current_user, bug_id) ==
    IF ~Found(bugs, [id |-> bug_id])
    THEN Error("get_bug", 404, "Bug not found")
    ELSE [op |-> "get_bug", code |-> 200, body |-> find_one(bugs, [id |-> bug_id])]

\* The response: 404, 403, or BugResponse(**bug).
get_bug_result(current_user, bug_id) ==
    IF ~Found(bugs, [id |-> bug_id])
    THEN Error("get_bug", 404, "Bug not found")
    ELSE LET bug == find_one(bugs, [id |-> bug_id]) IN
         IF current_user.role = "user" /\ bug.reported_by # current_user.id
         THEN Error("get_bug", 403, "Not authorized to view this bug")
         ELSE [op |-> "get_bug", code |-> 200, body |-> bug]

get_bug(current_user, bug_id) ==
    /\ UNCHANGED <<users, projects, bugs, issuedBugIds, issuedProjectIds, pc, loc, clock>>
    /\ response' = get_bug_result(current_user, bug_id)

----------------------------------------------------------------------------
(* GET /mybugs/                                                            *)

\* Mutant of get_my_bugs_result: the query does not start from assigned_to.
get_my_bugs_result_Unscoped(current_user, project_id, status_filter) ==
    IF current_user.role # "developer"
    THEN Error("get_my_bugs", 403, "Only developers can access their assigned bugs")
    ELSE [op |-> "get_my_bugs", code |-> 200,
          body |-> find(bugs, StatusFilter(status_filter) @@ ProjectFilter(project_id))]

get_my_bugs_result(current_user, project_id, status_filter) ==
    IF current_user.role # "developer"
    THEN Error("get_my_bugs", 403, "Only developers can access their assigned bugs")
    ELSE LET query == [assigned_to |-> current_user.id]
                        @@ ProjectFilter(project_id) @@ StatusFilter(status_filter)
         IN  [op |-> "get_my_bugs", code |-> 200, body |-> find(bugs, query)]

get_my_bugs(current_user, project_id, status_filter) ==
    /\ UNCHANGED <<users, projects, bugs, issuedBugIds, issuedProjectIds, pc, loc, clock>>
    /\ response' = get_my_bugs_result(current_user, project_id, status_filter)

----------------------------------------------------------------------------
(* GET /mybugs/stats                                                       *)

get_my_bugs_stats_result(current_user) ==
    IF current_user.role # "developer"
    THEN Error("get_my_bugs_stats", 403,
               "Only developers can access their bug statistics")
    ELSE LET query == [assigned_to |-> current_user.id]
         IN  [op |-> "get_my_bugs_stats", code |-> 200,
              body |->
                [total |-> count_documents(bugs, query),
                 open |-> count_documents(bugs, [status |-> "Open"] @@ query),
                 in_progress |-> count_documents(bugs, [status |-> "In Progress"] @@ query),
                 resolved |-> count_documents(bugs, [status |-> "Resolved"] @@ query),
                 closed |-> count_documents(bugs, [status |-> "Closed"] @@ query)]]

get_my_bugs_stats(current_user) ==
    /\ UNCHANGED <<users, projects, bugs, issuedBugIds, issuedProjectIds, pc, loc, clock>>
    /\ response' = get_my_bugs_stats_result(current_user)

----------------------------------------------------------------------------
(* GET /mybugs/projects                                                    *)

\* The $match/$group pipeline yields the distinct project ids of the bugs
\* assigned to the caller; find({"id": {"$in": project_ids}}) then lists the
\* stored projects with one of those ids, as {"id", "name"}.
get_my_projects_result(current_user) ==
    IF current_user.role # "developer"
    THEN Error("get_my_projects", 403, "Only developers can access this endpoint")
    ELSE LET project_ids == {b.project_id : b \in Range(find(bugs, [assigned_to |-> current_user.id]))}
             listed == SelectSeq(projects, LAMBDA p : p.id \in project_ids)
         IN  [op |-> "get_my_projects", code |-> 200,
              body |-> [i \in DOMAIN listed |->
                          [id |-> listed[i].id, name |-> listed[i].name]]]

get_my_projects(current_user) ==
    /\ UNCHANGED <<users, projects, bugs, issuedBugIds, issuedProjectIds, pc, loc, clock>>
    /\ response' = get_my_projects_result(current_user)

----------------------------------------------------------------------------
(* POST /auth/register                                                     *)

\* str.lower() on the e-mail addresses the requests below carry (EmailStr has
\* lower-cased the domain part already).
lower(s) ==
    CASE s = "Admin@bugify.com" -> "admin@bugify.com"
      [] s = "New@bugify.com" -> "new@bugify.com"
      [] s = "NEW@bugify.com" -> "new@bugify.com"
      [] OTHER -> s

\* UserResponse / ProfileResponse of a user document: no hashed_password.
UserResponse(user) ==
    [id |-> user.id, name |-> user.name, email |-> user.email, role |-> user.role]

\* Mutant of register: an id that a stored user holds is not given again.
register_FreshId(user_data, now, salt) ==
    /\ UNCHANGED <<projects, bugs, issuedBugIds, issuedProjectIds, pc, loc, clock>>
    /\ IF Found(users, [email |-> lower(user_data.email)])
       THEN /\ RespondError("register", 400, "Email already registered")
            /\ UNCHANGED users
       ELSE LET stamp == user_data.role \o ToString(now)
                new_user == [id |-> IF Found(users, [id |-> stamp])
                                    THEN stamp \o "-" \o ToString(Len(users))
                                    ELSE stamp,
                             name |-> user_data.name,
                             email |-> lower(user_data.email),
                             hashed_password |-> get_password_hash(user_data.password, salt),
                             role |-> user_data.role]
            IN  /\ Len(users) < MaxUsers
                /\ users' = insert_one(users, new_user)
                /\ response' = [op |-> "register", code |-> 201,
                                body |-> UserResponse(new_user)]

\* now is int(datetime.now().timestamp()), salt what bcrypt.gensalt() drew.
register(user_data, now, salt) ==
    /\ UNCHANGED <<projects, bugs, issuedBugIds, issuedProjectIds, pc, loc, clock>>
    /\ IF Found(users, [email |-> lower(user_data.email)])
       THEN /\ RespondError("register", 400, "Email already registered")
            /\ UNCHANGED users
       ELSE LET new_user == [id |-> user_data.role \o ToString(now),
                             name |-> user_data.name,
                             email |-> lower(user_data.email),
                             hashed_password |-> get_password_hash(user_data.password, salt),
                             role |-> user_data.role]
            IN  /\ Len(users) < MaxUsers
                /\ users' = insert_one(users, new_user)
                /\ response' = [op |-> "register", code |-> 201,
                                body |-> UserResponse(new_user)]

----------------------------------------------------------------------------
(* POST /auth/login                                                        *)

Unauthorized ==
    [op |-> "login", code |-> 401,
     body |-> [detail |-> "Invalid email, password, or role"],
     headers |-> [WWW_Authenticate |-> "Bearer"]]

\* The signing key and the life time of a token, in instants of the clock
\* (both read from the environment of the process).
SECRET_KEY == "secret-key"
ACCESS_TOKEN_EXPIRE_MINUTES == 1

\* The signature jwt.encode computes over a payload: determined by the key
\* and the payload.
Sign(payload, key) == [key |-> key, of |-> payload]

\* jwt.encode(payload, key): header, payload and signature, three segments.
Jwt(payload, key) ==
    [segments |-> 3, payload |-> payload, signature |-> Sign(payload, key)]

\* create_access_token(data={"sub": user["email"], "role": user["role"]}): the
\* JWT whose payload is `data` plus the expiry instant.
create_access_token(data) ==
    LET to_encode == [sub |-> data.sub, role |-> data.role,
                      exp |-> clock + ACCESS_TOKEN_EXPIRE_MINUTES]
    IN  Jwt(to_encode, SECRET_KEY)

\* Mutant of decode_access_token: the signature is not verified.
decode_access_token_NoSignature(token) ==
    IF token.segments # 3 \/ token.payload.exp < clock
    THEN None
    ELSE token.payload.sub

\* Mutant of decode_access_token: a token is refused from its expiry instant on.
decode_access_token_ExpiresEarly(token) ==
    IF \/ token.segments # 3
       \/ token.signature # Sign(token.payload, SECRET_KEY)
       \/ token.payload.exp <= clock
    THEN None
    ELSE token.payload.sub

\* decode_access_token(token): jwt.decode raises JWTError (and None is
\* returned) when the token does not split into three segments, when its
\* signature is not the one SECRET_KEY gives its payload, and when exp is
\* earlier than now; otherwise payload.get("sub").
decode_access_token(token) ==
    IF \/ token.segments # 3
       \/ token.signature # Sign(token.payload, SECRET_KEY)
       \/ token.payload.exp < clock
    THEN None
    ELSE token.payload.sub

\* Mutant of login_result: a wrong role is told apart from a wrong password.
login_result_TellsRole(credentials) ==
    IF ~Found(users, [email |-> lower(credentials.email)])
    THEN Unauthorized
    ELSE IF ~Found(users, [email |-> lower(credentials.email), role |-> credentials.role])
    THEN [Unauthorized EXCEPT !.body = [detail |-> "Invalid role"]]
    ELSE LET user == find_one(users, [email |-> lower(credentials.email),
                                      role |-> credentials.role])
         IN  IF ~verify_password(credentials.password, user.hashed_password)
             THEN Unauthorized
             ELSE [op |-> "login", code |-> 200,
                   body |-> [access_token |->
                                create_access_token([sub |-> user.email, role |-> user.role]),
                             token_type |-> "bearer",
                             user |-> UserResponse(user)]]

\* The response: 401, or Token(access_token, user).
login_result(credentials) ==
    IF ~Found(users, [email |-> lower(credentials.email), role |-> credentials.role])
    THEN Unauthorized
    ELSE LET user == find_one(users, [email |-> lower(credentials.email),
                                      role |-> credentials.role])
         IN  IF ~verify_password(credentials.password, user.hashed_password)
             THEN Unauthorized
             ELSE [op |-> "login", code |-> 200,
                   body |-> [access_token |->
                                create_access_token([sub |-> user.email, role |-> user.role]),
                             token_type |-> "bearer",
                             user |-> UserResponse(user)]]

login(credentials) ==
    /\ UNCHANGED <<users, projects, bugs, issuedBugIds, issuedProjectIds, pc, loc, clock>>
    /\ response' = login_result(credentials)

----------------------------------------------------------------------------
(* Depends(get_current_user): the caller of every endpoint but register    *)
(* and login                                                               *)

\* The Authorization header "<scheme> <token>"; scheme None when the request
\* carries no such header.
Bearer(token) == [scheme |-> "Bearer", token |-> token]

\* get_current_user(authorization): the HTTPException raised, or the first
\* stored user whose e-mail address is the token's subject.
get_current_user(authorization) ==
    IF ~Truthy(authorization.scheme) \/ authorization.scheme # "Bearer"
    THEN [code |-> 401, detail |-> "Not authenticated"]
    ELSE LET email == decode_access_token(authorization.token) IN
         IF ~Truthy(email)
         THEN [code |-> 401, detail |-> "Invalid or expired token"]
         ELSE IF ~Found(users, [email |-> email])
         THEN [code |-> 404, detail |-> "User not found"]
         ELSE [code |-> 200, user |-> find_one(users, [email |-> email])]

\* An endpoint declared with current_user = Depends(get_current_user) whose
\* dependency raises: the exception is the answer and the handler never runs.
Depends(authorization, op) ==
    LET current_user == get_current_user(authorization) IN
    /\ current_user.code # 200
    /\ RespondError(op, current_user.code, current_user.detail)
    /\ UNCHANGED <<users, projects, bugs, issuedBugIds, issuedProjectIds,
                   pc, loc, clock>>

----------------------------------------------------------------------------
(* PUT /profile/me                                                         *)

\* Mutant of update_my_profile: a new e-mail address becomes the id as well.
update_my_profile_RenamesId(current_user, profile_update) ==
    /\ UNCHANGED <<projects, bugs, issuedBugIds, issuedProjectIds, pc, loc, clock>>
    /\ IF /\ Truthy(profile_update.email)
          /\ \E existing_user \in Range(users) :
                /\ existing_user.email = lower(profile_update.email)
                /\ existing_user.id # current_user.id
       THEN /\ RespondError("update_my_profile", 400,
                            "Email is already taken by another user")
            /\ UNCHANGED users
       ELSE LET update_data ==
                    [f \in {g \in {"name", "email"} : Truthy(profile_update[g])}
                            \cup (IF Truthy(profile_update.email) THEN {"id"} ELSE {}) |->
                        IF f = "name" THEN profile_update.name
                        ELSE lower(profile_update.email)]
            IN  IF DOMAIN update_data = {}
                THEN /\ RespondError("update_my_profile", 400, "No fields to update")
                     /\ UNCHANGED users
                ELSE /\ users' = update_one(users, [id |-> current_user.id], update_data)
                     /\ response' =
                          [op |-> "update_my_profile", code |-> 200,
                           body |-> UserResponse(
                                      users'[FirstMatch(users, [id |-> current_user.id])])]

update_my_profile(current_user, profile_update) ==
    /\ UNCHANGED <<projects, bugs, issuedBugIds, issuedProjectIds, pc, loc, clock>>
    /\ IF /\ Truthy(profile_update.email)
          /\ \E existing_user \in Range(users) :        \* "id": {"$ne": ...}
                /\ existing_user.email = lower(profile_update.email)
                /\ existing_user.id # current_user.id
       THEN /\ RespondError("update_my_profile", 400,
                            "Email is already taken by another user")
            /\ UNCHANGED users
       ELSE LET update_data ==
                    [f \in {g \in {"name", "email"} : Truthy(profile_update[g])} |->
                        IF f = "email" THEN lower(profile_update.email)
                        ELSE profile_update.name]
            IN  IF DOMAIN update_data = {}
                THEN /\ RespondError("update_my_profile", 400, "No fields to update")
                     /\ UNCHANGED users
                ELSE /\ users' = update_one(users, [id |-> current_user.id], update_data)
                     /\ response' =
                          [op |-> "update_my_profile", code |-> 200,
                           body |-> UserResponse(find_one(users', [id |-> current_user.id]))]

----------------------------------------------------------------------------
(* PUT /profile/me/password                                                *)

\* PasswordChange after validation: confirm_password equals new_password.
change_password(current_user, password_change, salt) ==
    /\ UNCHANGED <<projects, bugs, issuedBugIds, issuedProjectIds, pc, loc, clock>>
    /\ IF ~Found(users, [id |-> current_user.id])
       THEN /\ RespondError("change_password", 404, "User not found")
            /\ UNCHANGED users
       ELSE LET user == find_one(users, [id |-> current_user.id]) IN
            IF ~verify_password(password_change.current_password, user.hashed_password)
            THEN /\ RespondError("change_password", 400, "Current password is incorrect")
                 /\ UNCHANGED users
            ELSE IF verify_password(password_change.new_password, user.hashed_password)
            THEN /\ RespondError("change_password", 400,
                                 "New password must be different from current password")
                 /\ UNCHANGED users
            ELSE /\ users' = update_one(users, [id |-> current_user.id],
                                  [hashed_password |->
                                     get_password_hash(password_change.new_password, salt)])
                 /\ response' = [op |-> "change_password", code |-> 200,
                                 body |-> [message |-> "Password changed successfully"]]

----------------------------------------------------------------------------
(* Requests, one at a time: every handler runs from start to end           *)

Callers == Range(users)
UserById(id) == find_one(users, [id |-> id])
BugIdInputs == 1..MaxBugId

----------------------------------------------------------------------------
(* Spec: the bug-mutating endpoints over the seeded store                  *)

BugCreates == [project_id : {1, 9}, priority : {"Medium"}]
BugUpdates == [status : {None, "Resolved"}, assigned_to : {None, "user1"},
               priority : {None}]
AssignValues == {None, "", "dev2", "ghost"}
StatusInputs == {"Resolved"}

CreateBug == \E d \in BugCreates : create_bug(UserById("user1"), d)
UpdateBug == \E u \in Callers, id \in BugIdInputs, d \in BugUpdates : update_bug(u, id, d)
DeleteBug == \E u \in Callers, id \in BugIdInputs : delete_bug(u, id)
AssignBug ==
    \E u \in Callers, id \in BugIdInputs, a \in AssignValues :
        assign_bug_to_developer(u, id, a)
StatusAdmin ==
    \E u \in Callers, id \in BugIdInputs, s \in StatusInputs :
        update_bug_status_admin(u, id, s)
StatusMine ==
    \E u \in Callers, id \in BugIdInputs, s \in StatusInputs :
        update_my_bug_status(u, id, s)

Next ==
    \/ CreateBug
    \/ UpdateBug
    \/ DeleteBug
    \/ AssignBug
    \/ StatusAdmin
    \/ StatusMine

Spec == Init /\ [][Next]_vars

----------------------------------------------------------------------------
(* SpecRegistry: creation and deletion of bugs and projects                *)

ProjectIdInputs == 1..MaxProjectId
RegistryBugCreates == [project_id : {1, 2, 9}, priority : {"Medium"}]
\* A seeded name, and a name that differs from it by letter case only.
ProjectNames == {"Bugify API", "bugify api"}

RegistryCreateBug == \E d \in RegistryBugCreates : create_bug(UserById("user1"), d)
RegistryDeleteBug == \E u \in Callers, id \in BugIdInputs : delete_bug(u, id)
CreateProject == \E u \in Callers, n \in ProjectNames : create_project(u, n)
DeleteProject == \E u \in Callers, id \in ProjectIdInputs : delete_project(u, id)

NextRegistry ==
    \/ RegistryCreateBug
    \/ RegistryDeleteBug
    \/ CreateProject
    \/ DeleteProject

SpecRegistry == Init /\ [][NextRegistry]_vars

----------------------------------------------------------------------------
(* SpecCreate: bugs created by callers of every role, for projects that    *)
(* admins create and delete                                                *)

CreateBugAnyRole ==
    \E u \in Callers, project_id \in {1, 4, 9} :
        create_bug(u, [project_id |-> project_id, priority |-> "Medium"])

NextCreate ==
    \/ CreateBugAnyRole
    \/ CreateProject
    \/ DeleteProject

SpecCreate == Init /\ [][NextCreate]_vars

----------------------------------------------------------------------------
(* SpecRace: concurrent requests.  Each `await` on the store is one step   *)
(* of its handler; steps of different requests interleave.                 *)

Goto(p, label, locals) ==
    /\ pc' = [pc EXCEPT ![p] = label]
    /\ loc' = [loc EXCEPT ![p] = locals]

Return(p) == Goto(p, "idle", NoLocals)

\* create_bug: projects_collection.find_one({"id": bug_data.project_id})
cb_find_project(p, current_user, bug_data) ==
    /\ pc[p] = "idle"
    /\ UNCHANGED <<users, projects, bugs, issuedBugIds, issuedProjectIds, clock>>
    /\ IF ~Found(projects, [id |-> bug_data.project_id])
       THEN Respond("create_bug", 404) /\ UNCHANGED <<pc, loc>>
       ELSE /\ Goto(p, "cb_latest",
                    [op |-> "create_bug", current_user |-> current_user,
                     bug_data |-> bug_data,
                     project |-> find_one(projects, [id |-> bug_data.project_id])])
            /\ UNCHANGED response

\* create_bug: bugs_collection.find_one(sort=[("id", -1)])
cb_latest(p) ==
    /\ pc[p] = "cb_latest"
    /\ NextId(bugs) <= MaxBugId
    /\ Goto(p, "cb_insert", [next_id |-> NextId(bugs)] @@ loc[p])
    /\ UNCHANGED <<users, projects, bugs, response, issuedBugIds, issuedProjectIds, clock>>

\* create_bug: bugs_collection.insert_one(new_bug)
cb_insert(p) ==
    /\ pc[p] = "cb_insert"
    /\ bugs' = insert_one(bugs,
                 [id |-> loc[p].next_id,
                  project_id |-> loc[p].bug_data.project_id,
                  project_name |-> loc[p].project.name,
                  status |-> "Open",
                  priority |-> loc[p].bug_data.priority,
                  reported_by |-> loc[p].current_user.id,
                  assigned_to |-> None,
                  created_at |-> clock,
                  updated_at |-> clock])
    /\ issuedBugIds' = issuedBugIds \cup {loc[p].next_id}
    /\ Respond("create_bug", 201)
    /\ Return(p)
    /\ UNCHANGED <<users, projects, issuedProjectIds, clock>>

\* create_project: role check, then projects_collection.find_one({"name": name})
cp_find_name(p, current_user, name) ==
    /\ pc[p] = "idle"
    /\ UNCHANGED <<users, projects, bugs, issuedBugIds, issuedProjectIds, clock>>
    /\ IF current_user.role # "admin"
       THEN Respond("create_project", 403) /\ UNCHANGED <<pc, loc>>
       ELSE IF Found(projects, [name |-> name])
       THEN Respond("create_project", 400) /\ UNCHANGED <<pc, loc>>
       ELSE /\ Goto(p, "cp_latest",
                    [op |-> "create_project", current_user |-> current_user,
                     name |-> name])
            /\ UNCHANGED response

\* create_project: projects_collection.find_one(sort=[("id", -1)])
cp_latest(p) ==
    /\ pc[p] = "cp_latest"
    /\ NextId(projects) <= MaxProjectId
    /\ Goto(p, "cp_insert", [next_id |-> NextId(projects)] @@ loc[p])
    /\ UNCHANGED <<users, projects, bugs, response, issuedBugIds, issuedProjectIds, clock>>

\* create_project: projects_collection.insert_one(new_project)
cp_insert(p) ==
    /\ pc[p] = "cp_insert"
    /\ projects' = insert_one(projects,
                     [id |-> loc[p].next_id, name |-> loc[p].name,
                      created_by |-> loc[p].current_user.id])
    /\ issuedProjectIds' = issuedProjectIds \cup {loc[p].next_id}
    /\ Respond("create_project", 201)
    /\ Return(p)
    /\ UNCHANGED <<users, bugs, issuedBugIds, clock>>

\* delete_project: role check, then projects_collection.find_one({"id": project_id})
dp_find(p, current_user, project_id) ==
    /\ pc[p] = "idle"
    /\ UNCHANGED <<users, projects, bugs, issuedBugIds, issuedProjectIds, clock>>
    /\ IF current_user.role # "admin"
       THEN Respond("delete_project", 403) /\ UNCHANGED <<pc, loc>>
       ELSE IF ~Found(projects, [id |-> project_id])
       THEN Respond("delete_project", 404) /\ UNCHANGED <<pc, loc>>
       ELSE /\ Goto(p, "dp_count", [op |-> "delete_project", project_id |-> project_id])
            /\ UNCHANGED response

\* delete_project: bugs_collection.count_documents({"project_id": project_id})
dp_count(p) ==
    /\ pc[p] = "dp_count"
    /\ UNCHANGED <<users, projects, bugs, issuedBugIds, issuedProjectIds, clock>>
    /\ IF count_documents(bugs, [project_id |-> loc[p].project_id]) > 0
       THEN Respond("delete_project", 400) /\ Return(p)
       ELSE Goto(p, "dp_delete", loc[p]) /\ UNCHANGED response

\* delete_project: projects_collection.delete_one({"id": project_id})
dp_delete(p) ==
    /\ pc[p] = "dp_delete"
    /\ projects' = delete_one(projects, [id |-> loc[p].project_id])
    /\ Respond("delete_project", 200)
    /\ Return(p)
    /\ UNCHANGED <<users, bugs, issuedBugIds, issuedProjectIds, clock>>

RaceCallers == {UserById("admin1")}
RaceBugCreates == [project_id : {2, 9}, priority : {"Medium"}]
RaceProjectNames == {"Atlas", "Borealis"}
RaceProjectIds == {2, 4}

RaceCreateBug ==
    \E p \in Procs :
        \/ \E d \in RaceBugCreates : cb_find_project(p, UserById("user1"), d)
        \/ cb_latest(p)
        \/ cb_insert(p)
RaceCreateProject ==
    \E p \in Procs :
        \/ \E u \in RaceCallers, n \in RaceProjectNames : cp_find_name(p, u, n)
        \/ cp_latest(p)
        \/ cp_insert(p)
RaceDeleteProject ==
    \E p \in Procs :
        \/ \E u \in RaceCallers, id \in RaceProjectIds : dp_find(p, u, id)
        \/ dp_count(p)
        \/ dp_delete(p)
\* delete_bug makes a single store call: the whole handler is one step.
RaceBugIds == {2, 3}
RaceDeleteBug == \E u \in RaceCallers, id \in RaceBugIds : delete_bug(u, id)

NextRace ==
    \/ RaceCreateBug
    \/ RaceCreateProject
    \/ RaceDeleteProject
    \/ RaceDeleteBug

SpecRace == Init /\ [][NextRace]_vars

----------------------------------------------------------------------------
(* The endpoints that update a bug, one step per `await` on the store: the *)
(* handler's own find, then update_one, then the find_one that re-reads    *)
(* the bug for the response                                                *)

\* The $set of a request without its time stamp, which is read when
\* update_one is called.
SetOf(fields) == [f \in DOMAIN fields \ {"updated_at"} |-> fields[f]]

\* A handler that passed its checks goes on to update_one.
ToUpdate(p, op, current_user, bug_id, set) ==
    Goto(p, "update_one",
         [op |-> op, current_user |-> current_user, bug_id |-> bug_id, set |-> set])

\* update_bug: bugs_collection.find_one({"id": bug_id}), then the role check
ub_find(p, current_user, bug_id, bug_update) ==
    /\ pc[p] = "idle"
    /\ UNCHANGED <<users, projects, bugs, issuedBugIds, issuedProjectIds, clock>>
    /\ IF ~Found(bugs, [id |-> bug_id])
       THEN Respond("update_bug", 404) /\ UNCHANGED <<pc, loc>>
       ELSE IF current_user.role = "user"
       THEN Respond("update_bug", 403) /\ UNCHANGED <<pc, loc>>
       ELSE /\ ToUpdate(p, "update_bug", current_user, bug_id,
                        SetOf(update_dict(bug_update)))
            /\ UNCHANGED response

\* assign_bug_to_developer: role check, then bugs_collection.find_one({"id": bug_id})
as_find(p, current_user, bug_id, assigned_to) ==
    /\ pc[p] = "idle"
    /\ UNCHANGED <<users, projects, bugs, issuedBugIds, issuedProjectIds, clock>>
    /\ IF current_user.role # "admin"
       THEN /\ RespondError("assign_bug_to_developer", 403, "Only admins can assign bugs")
            /\ UNCHANGED <<pc, loc>>
       ELSE IF ~Found(bugs, [id |-> bug_id])
       THEN /\ RespondError("assign_bug_to_developer", 404, "Bug not found")
            /\ UNCHANGED <<pc, loc>>
       ELSE /\ UNCHANGED response
            /\ IF Truthy(assigned_to)
               THEN Goto(p, "as_find_developer",
                         [op |-> "assign_bug_to_developer", current_user |-> current_user,
                          bug_id |-> bug_id, set |-> [assigned_to |-> assigned_to]])
               ELSE ToUpdate(p, "assign_bug_to_developer", current_user, bug_id,
                             [assigned_to |-> assigned_to])

\* assign_bug_to_developer:
\* users_collection.find_one({"id": assigned_to, "role": "developer"})
as_find_developer(p) ==
    /\ pc[p] = "as_find_developer"
    /\ UNCHANGED <<users, projects, bugs, issuedBugIds, issuedProjectIds, clock>>
    /\ IF ~Found(users, [id |-> loc[p].set.assigned_to, role |-> "developer"])
       THEN /\ RespondError("assign_bug_to_developer", 404, "Developer not found")
            /\ Return(p)
       ELSE /\ Goto(p, "update_one", loc[p])
            /\ UNCHANGED response

\* update_bug_status_admin: role check, then bugs_collection.find_one({"id": bug_id})
sa_find(p, current_user, bug_id, new_status) ==
    /\ pc[p] = "idle"
    /\ UNCHANGED <<users, projects, bugs, issuedBugIds, issuedProjectIds, clock>>
    /\ IF current_user.role # "admin"
       THEN /\ RespondError("update_bug_status_admin", 403,
                            "Only admins can update bug status")
            /\ UNCHANGED <<pc, loc>>
       ELSE IF ~Found(bugs, [id |-> bug_id])
       THEN /\ RespondError("update_bug_status_admin", 404, "Bug not found")
            /\ UNCHANGED <<pc, loc>>
       ELSE /\ ToUpdate(p, "update_bug_status_admin", current_user, bug_id,
                        [status |-> new_status])
            /\ UNCHANGED response

\* update_my_bug_status: role check, then
\* bugs_collection.find_one({"id": bug_id, "assigned_to": current_user["id"]})
ms_find(p, current_user, bug_id, new_status) ==
    /\ pc[p] = "idle"
    /\ UNCHANGED <<users, projects, bugs, issuedBugIds, issuedProjectIds, clock>>
    /\ IF current_user.role # "developer"
       THEN /\ RespondError("update_my_bug_status", 403,
                            "Only developers can update bug status")
            /\ UNCHANGED <<pc, loc>>
       ELSE IF ~Found(bugs, [id |-> bug_id, assigned_to |-> current_user.id])
       THEN /\ RespondError("update_my_bug_status", 404,
                            "Bug not found or not assigned to you")
            /\ UNCHANGED <<pc, loc>>
       ELSE /\ ToUpdate(p, "update_my_bug_status", current_user, bug_id,
                        [status |-> new_status])
            /\ UNCHANGED response

\* The four handlers alike: bugs_collection.update_one({"id": bug_id}, {"$set": ...})
\* with updated_at read at the call.
bug_update_one(p) ==
    /\ pc[p] = "update_one"
    /\ bugs' = update_one(bugs, [id |-> loc[p].bug_id],
                          [f \in DOMAIN loc[p].set \cup {"updated_at"} |->
                              IF f = "updated_at" THEN clock ELSE loc[p].set[f]])
    /\ Goto(p, "refetch", loc[p])
    /\ UNCHANGED <<users, projects, response, issuedBugIds, issuedProjectIds, clock>>

\* Mutant of bug_refetch: the response is built from what find_one returned,
\* a bug or null, and sent with 200.
bug_refetch_NullBody(p) ==
    /\ pc[p] = "refetch"
    /\ response' = [op |-> loc[p].op, code |-> 200,
                    body |-> IF Found(bugs, [id |-> loc[p].bug_id])
                             THEN find_one(bugs, [id |-> loc[p].bug_id])
                             ELSE None]
    /\ Return(p)
    /\ UNCHANGED <<users, projects, bugs, issuedBugIds, issuedProjectIds, clock>>

\* The four handlers alike: updated_bug = bugs_collection.find_one({"id": bug_id})
\* and BugResponse(**updated_bug), which raises TypeError when updated_bug is
\* None: the server answers 500.
bug_refetch(p) ==
    /\ pc[p] = "refetch"
    /\ response' = IF Found(bugs, [id |-> loc[p].bug_id])
                   THEN [op |-> loc[p].op, code |-> 200,
                         body |-> find_one(bugs, [id |-> loc[p].bug_id])]
                   ELSE [op |-> loc[p].op, code |-> 500,
                         body |-> "Internal Server Error"]
    /\ Return(p)
    /\ UNCHANGED <<users, projects, bugs, issuedBugIds, issuedProjectIds, clock>>

----------------------------------------------------------------------------
(* SpecReassign: a developer's status updates and an administrator's       *)
(* assignments of the same bugs, interleaved                               *)

\* The seeded bugs, both assigned to dev1.
HeldBugIds == {1, 2}

ReassignMyStatus ==
    \E p \in Procs, id \in HeldBugIds : ms_find(p, UserById("dev1"), id, "Resolved")
ReassignAssign ==
    \E p \in Procs, id \in HeldBugIds, a \in {None, "dev2"} :
        as_find(p, UserById("admin1"), id, a)

NextReassign ==
    \/ ReassignMyStatus
    \/ ReassignAssign
    \/ \E p \in Procs : as_find_developer(p)
    \/ \E p \in Procs : bug_update_one(p)
    \/ \E p \in Procs : bug_refetch(p)

SpecReassign == Init /\ [][NextReassign]_vars

----------------------------------------------------------------------------
(* SpecDelete: the four endpoints that update a bug, deletions and         *)
(* creations of bugs, interleaved                                          *)

\* The bug the update requests name: the seeded bug with the largest id, so
\* that the next bug created after its deletion gets its id again.
RacedBugId == 2

DeleteUpdateBug ==
    \E p \in Procs :
        ub_find(p, UserById("dev1"), RacedBugId,
                [status |-> "Resolved", assigned_to |-> None, priority |-> None])
DeleteAssign == \E p \in Procs : as_find(p, UserById("admin1"), RacedBugId, "dev1")
DeleteStatusAdmin == \E p \in Procs : sa_find(p, UserById("admin1"), RacedBugId, "Closed")
DeleteMyStatus == \E p \in Procs : ms_find(p, UserById("dev1"), RacedBugId, "Resolved")

NextDelete ==
    \/ DeleteUpdateBug
    \/ DeleteAssign
    \/ DeleteStatusAdmin
    \/ DeleteMyStatus
    \/ \E p \in Procs : as_find_developer(p)
    \/ \E p \in Procs : bug_update_one(p)
    \/ \E p \in Procs : bug_refetch(p)
    \/ RaceDeleteBug
    \/ RaceCreateBug

SpecDelete == Init /\ [][NextDelete]_vars

----------------------------------------------------------------------------
(* The two statistics endpoints, one step per count_documents call         *)

\* The statuses counted after the total, in the order of the calls.
StatsOrder == <<"Open", "In Progress", "Resolved", "Closed">>

\* get_dashboard_stats: total = bugs_collection.count_documents(query)
gs_total(p, current_user) ==
    /\ pc[p] = "idle"
    /\ Goto(p, "count_status",
            [op |-> "get_dashboard_stats", query |-> RoleScope(current_user),
             counts |-> <<count_documents(bugs, RoleScope(current_user))>>])
    /\ UNCHANGED <<users, projects, bugs, response, issuedBugIds, issuedProjectIds, clock>>

\* get_my_bugs_stats: role check, then total = bugs_collection.count_documents(query)
mys_total(p, current_user) ==
    /\ pc[p] = "idle"
    /\ UNCHANGED <<users, projects, bugs, issuedBugIds, issuedProjectIds, clock>>
    /\ IF current_user.role # "developer"
       THEN /\ RespondError("get_my_bugs_stats", 403,
                            "Only developers can access their bug statistics")
            /\ UNCHANGED <<pc, loc>>
       ELSE /\ Goto(p, "count_status",
                    [op |-> "get_my_bugs_stats", query |-> [assigned_to |-> current_user.id],
                     counts |-> <<count_documents(bugs, [assigned_to |-> current_user.id])>>])
            /\ UNCHANGED response

\* Both handlers alike: the next of the four
\* bugs_collection.count_documents({**query, "status": s}); after the last of
\* them the response is built from the five numbers.
stats_count(p) ==
    /\ pc[p] = "count_status"
    /\ UNCHANGED <<users, projects, bugs, issuedBugIds, issuedProjectIds, clock>>
    /\ LET s == StatsOrder[Len(loc[p].counts)]
           counts == Append(loc[p].counts,
                            count_documents(bugs, [status |-> s] @@ loc[p].query))
       IN  IF Len(counts) <= Len(StatsOrder)
           THEN /\ Goto(p, "count_status", [loc[p] EXCEPT !.counts = counts])
                /\ UNCHANGED response
           ELSE /\ response' = [op |-> loc[p].op, code |-> 200,
                                body |-> [total |-> counts[1], open |-> counts[2],
                                          in_progress |-> counts[3],
                                          resolved |-> counts[4], closed |-> counts[5]]]
                /\ Return(p)

----------------------------------------------------------------------------
(* SpecStats: the statistics endpoints while status updates, creations and *)
(* deletions of bugs run                                                   *)

\* The statistics requests take the first request slot, the status updates
\* the second; creations take either.
StatsDashboard == \E id \in {"admin1", "user1"} : gs_total("r1", UserById(id))
StatsMine == \E id \in {"dev1", "user1"} : mys_total("r1", UserById(id))
StatsSetStatus == sa_find("r2", UserById("admin1"), RacedBugId, "Closed")

NextStats ==
    \/ StatsDashboard
    \/ StatsMine
    \/ \E p \in Procs : stats_count(p)
    \/ StatsSetStatus
    \/ \E p \in Procs : bug_update_one(p)
    \/ \E p \in Procs : bug_refetch(p)
    \/ RaceCreateBug
    \/ RaceDeleteBug

SpecStats == Init /\ [][NextStats]_vars

----------------------------------------------------------------------------
(* SpecDash: the dashboard queries over stores that creations and status   *)
(* updates produce                                                         *)

\* New bugs are reported by user1; the seeded store already holds a bug that
\* admin1 reported.
DashReporters == {UserById("user1")}
DashCallers == {UserById("user1"), UserById("admin1")}
DashBugCreates == [project_id : {1, 2}, priority : {"Medium"}]
DashProjectFilters == {NoneInt, 0, 1, 2}
DashStatusFilters == {None, "", "all"} \cup Statuses

DashCreateBug == \E u \in DashReporters, d \in DashBugCreates : create_bug(u, d)
DashSetStatus ==
    \E id \in BugIdInputs, s \in Statuses :
        update_bug_status_admin(UserById("admin1"), id, s)
\* The callers that query: one that is scoped to own reports, one that is not.
GetBugs ==
    \E u \in DashCallers, pid \in DashProjectFilters, st \in DashStatusFilters :
        get_bugs(u, pid, st)
GetStats == \E u \in DashCallers : get_dashboard_stats(u)

NextDash ==
    \/ DashCreateBug
    \/ DashSetStatus
    \/ GetBugs
    \/ GetStats

SpecDash == Init /\ [][NextDash]_vars

----------------------------------------------------------------------------
(* SpecMine: reading one bug, and the endpoints under /mybugs, over stores *)
(* that creations, assignments and developers' status updates produce      *)

MineBugCreates == [project_id : {2}, priority : {"Medium"}]
MineAssignees == {None, "dev2"}
MineProjectFilters == {NoneInt, 0, 1, 2}
MineStatusFilters == {None, "", "all"} \cup Statuses

MineCreateBug == \E d \in MineBugCreates : create_bug(UserById("user1"), d)
MineAssign ==
    \E id \in BugIdInputs, a \in MineAssignees :
        assign_bug_to_developer(UserById("admin1"), id, a)
MineSetStatus ==
    \E u \in Callers, id \in BugIdInputs, s \in StatusInputs :
        update_my_bug_status(u, id, s)
GetBug == \E u \in Callers, id \in BugIdInputs : get_bug(u, id)
GetMyBugs ==
    \E u \in Callers, pid \in {NoneInt, 2}, st \in {None, "Open"} :
        get_my_bugs(u, pid, st)
GetMyStats == \E u \in Callers : get_my_bugs_stats(u)
GetMyProjects == \E u \in Callers : get_my_projects(u)

NextMine ==
    \/ MineCreateBug
    \/ MineAssign
    \/ MineSetStatus
    \/ GetBug
    \/ GetMyBugs
    \/ GetMyStats
    \/ GetMyProjects

SpecMine == Init /\ [][NextMine]_vars

----------------------------------------------------------------------------
(* SpecStatus: every status written by the admin and by developers, on     *)
(* bugs the admin reassigns                                                *)

SetMyStatus ==
    \E u \in Callers, id \in BugIdInputs, s \in Statuses :
        update_my_bug_status(u, id, s)

NextStatus ==
    \/ DashSetStatus
    \/ SetMyStatus
    \/ MineAssign

SpecStatus == Init /\ [][NextStatus]_vars

----------------------------------------------------------------------------
(* SpecPolicy: every bug endpoint that writes, called by every role; the   *)
(* user-role caller sends every combination of the fields of BugUpdate     *)

PolicyBugCreates == [project_id : {1}, priority : {"Medium"}]
PolicyBugUpdates == [status : {None, "Resolved"}, assigned_to : {None, "dev2"},
                     priority : {None, "Low"}]
PolicyStatusUpdates == {d \in PolicyBugUpdates : d.assigned_to = None /\ d.priority = None}
PolicyAssignees == {"dev2"}

PolicyCreateBug == \E d \in PolicyBugCreates : create_bug(UserById("user1"), d)
PolicyUpdateBug ==
    \E u \in Callers, id \in BugIdInputs, d \in PolicyStatusUpdates : update_bug(u, id, d)
UserUpdateBug ==
    \E id \in BugIdInputs, d \in PolicyBugUpdates : update_bug(UserById("user1"), id, d)
PolicyDeleteBug == \E u \in Callers, id \in BugIdInputs : delete_bug(u, id)
PolicyAssign ==
    \E u \in Callers, id \in BugIdInputs, a \in PolicyAssignees :
        assign_bug_to_developer(u, id, a)
PolicyStatusAdmin ==
    \E u \in Callers, id \in BugIdInputs, s \in StatusInputs :
        update_bug_status_admin(u, id, s)
PolicyStatusMine ==
    \E u \in Callers, id \in BugIdInputs, s \in StatusInputs :
        update_my_bug_status(u, id, s)

NextPolicy ==
    \/ PolicyCreateBug
    \/ PolicyUpdateBug
    \/ UserUpdateBug
    \/ PolicyDeleteBug
    \/ PolicyAssign
    \/ PolicyStatusAdmin
    \/ PolicyStatusMine

SpecPolicy == Init /\ [][NextPolicy]_vars

----------------------------------------------------------------------------
(* SpecClock: the four endpoints that update a bug, while time passes      *)

\* The clock of the server advances.
Tick ==
    /\ clock < MaxClock
    /\ clock' = clock + 1
    /\ UNCHANGED <<users, projects, bugs, response, issuedBugIds, issuedProjectIds,
                   pc, loc>>

\* The bugs written to: a seeded one, and the first one created.
ClockBugIds == {2, 3}

\* Bodies of PUT /bugs/{id} that give no priority.
ClockBugUpdates == {d \in PolicyBugUpdates : d.priority = None}

ClockUpdateBug ==
    \E id \in ClockBugIds, d \in ClockBugUpdates : update_bug(UserById("admin1"), id, d)
ClockAssign ==
    \E id \in ClockBugIds : assign_bug_to_developer(UserById("admin1"), id, "dev2")
ClockStatusAdmin ==
    \E id \in ClockBugIds : update_bug_status_admin(UserById("admin1"), id, "Resolved")
ClockStatusMine ==
    \E id \in ClockBugIds : update_my_bug_status(UserById("dev2"), id, "Resolved")

NextClock ==
    \/ Tick
    \/ PolicyCreateBug
    \/ ClockUpdateBug
    \/ ClockAssign
    \/ ClockStatusAdmin
    \/ ClockStatusMine

SpecClock == Init /\ [][NextClock]_vars

----------------------------------------------------------------------------
(* SpecFrame: the same endpoints at one instant, with every combination of *)
(* the fields of BugUpdate, and deletions                                  *)

FrameUpdateBug ==
    \E id \in ClockBugIds, d \in PolicyBugUpdates : update_bug(UserById("admin1"), id, d)

NextFrame ==
    \/ PolicyCreateBug
    \/ FrameUpdateBug
    \/ ClockAssign
    \/ ClockStatusAdmin
    \/ ClockStatusMine
    \/ PolicyDeleteBug

SpecFrame == Init /\ [][NextFrame]_vars

----------------------------------------------------------------------------
(* SpecUser: every bug endpoint that writes, called by the user-role       *)
(* caller, over stores that the administrator's updates, assignments and   *)
(* status updates produce                                                  *)

UserDeleteBug == \E id \in BugIdInputs : delete_bug(UserById("user1"), id)
UserAssign ==
    \E id \in BugIdInputs, a \in PolicyAssignees :
        assign_bug_to_developer(UserById("user1"), id, a)
UserStatusAdmin ==
    \E id \in BugIdInputs, s \in StatusInputs :
        update_bug_status_admin(UserById("user1"), id, s)
UserStatusMine ==
    \E id \in BugIdInputs, s \in StatusInputs :
        update_my_bug_status(UserById("user1"), id, s)

NextUser ==
    \/ PolicyCreateBug
    \/ UserUpdateBug
    \/ UserDeleteBug
    \/ UserAssign
    \/ UserStatusAdmin
    \/ UserStatusMine
    \/ FrameUpdateBug
    \/ ClockAssign
    \/ ClockStatusAdmin

SpecUser == Init /\ [][NextUser]_vars

----------------------------------------------------------------------------
(* SpecAuth: registration, login and profile updates                       *)

\* Two clock seconds in which registrations arrive.
Times == {1700000000, 1700000001}
Salts == {"salt9"}
Registrations ==
    [name : {"Nina New"}, email : {"Admin@bugify.com", "New@bugify.com", "zed@bugify.com"},
     password : {"secret1", "secret2"}, role : {"user"}]
ProfileUpdates ==
    [name : {None}, email : {None, "NEW@bugify.com", "zed@bugify.com", "dev1@bugify.com"}]
        \cup [name : {"Mike Moved"}, email : {None}]
Logins ==
    [email : {"Admin@bugify.com", "dev1@bugify.com", "new@bugify.com", "ghost@bugify.com"},
     password : {"admin123", "dev123", "secret1", "secret2"},
     role : {"admin", "developer", "user"}]

\* The callers a valid token stands for: the users get_current_user returns
\* for the tokens a login of a stored user issues.
Authenticated ==
    {get_current_user(Bearer(create_access_token([sub |-> u.email, role |-> u.role]))).user :
        u \in Range(users)}

Register == \E d \in Registrations, now \in Times, salt \in Salts : register(d, now, salt)
Login == \E c \in Logins : login(c)
UpdateMyProfile ==
    \E u \in {a \in Authenticated : a.role = "user"}, d \in ProfileUpdates :
        update_my_profile(u, d)

NextAuth ==
    \/ Register
    \/ Login
    \/ UpdateMyProfile

SpecAuth == Init /\ [][NextAuth]_vars

----------------------------------------------------------------------------
(* SpecPassword: registrations, profile updates and password changes      *)

PasswordChanges ==
    [current_password : {"user123", "secret1", "secret2"},
     new_password : {"secret1", "secret2"}]

ChangePassword ==
    \E u \in {a \in Authenticated : a.role = "user"}, d \in PasswordChanges,
       salt \in Salts :
        change_password(u, d, salt)

NextPassword ==
    \/ Register
    \/ UpdateMyProfile
    \/ ChangePassword

SpecPassword == Init /\ [][NextPassword]_vars

----------------------------------------------------------------------------
(* SpecToken: requests with an Authorization header to an endpoint of each *)
(* router, while time passes                                               *)

\* The token a login of the user gets at the first instant of the server.
StartupToken(user) ==
    Jwt([sub |-> user.email, role |-> user.role, exp |-> 3 + ACCESS_TOKEN_EXPIRE_MINUTES],
        SECRET_KEY)

\* Headers that carry such a token.
TokenHeaders == {Bearer(StartupToken(UserById(id))) : id \in {"admin1", "dev1", "user1"}}

\* Headers that carry no usable token: no header, another scheme, a token of
\* two segments, the token of user1 with the subject rewritten, and a token
\* signed with another key.
BadHeaders ==
    LET token == StartupToken(UserById("user1")) IN
    { [scheme |-> None, token |-> token],
      [scheme |-> "Basic", token |-> token],
      Bearer([token EXCEPT !.segments = 2]),
      Bearer([token EXCEPT !.payload.sub = "admin@bugify.com", !.payload.role = "admin"]),
      Bearer(Jwt([sub |-> "admin@bugify.com", role |-> "admin", exp |-> MaxClock + 1],
                 "another-key")) }

\* One request to an endpoint of each router that declares the dependency.
BugsRequest(authorization) ==
    LET current_user == get_current_user(authorization) IN
    IF current_user.code = 200
    THEN delete_bug(current_user.user, 2)
    ELSE Depends(authorization, "delete_bug")
ProjectsRequest(authorization) ==
    LET current_user == get_current_user(authorization) IN
    IF current_user.code = 200
    THEN create_project(current_user.user, "bugify api")
    ELSE Depends(authorization, "create_project")
DashboardRequest(authorization) ==
    LET current_user == get_current_user(authorization) IN
    IF current_user.code = 200
    THEN get_dashboard_stats(current_user.user)
    ELSE Depends(authorization, "get_dashboard_stats")
ManageRequest(authorization) ==
    LET current_user == get_current_user(authorization) IN
    IF current_user.code = 200
    THEN update_bug_status_admin(current_user.user, 1, "Closed")
    ELSE Depends(authorization, "update_bug_status_admin")
MyBugsRequest(authorization) ==
    LET current_user == get_current_user(authorization) IN
    IF current_user.code = 200
    THEN update_my_bug_status(current_user.user, 1, "Resolved")
    ELSE Depends(authorization, "update_my_bug_status")
ProfileRequest(authorization) ==
    LET current_user == get_current_user(authorization) IN
    IF current_user.code = 200
    THEN change_password(current_user.user,
                         [current_password |-> "user123", new_password |-> "secret1"],
                         "salt9")
    ELSE Depends(authorization, "change_password")

NextToken ==
    \/ Tick
    \/ \E a \in TokenHeaders \cup BadHeaders : BugsRequest(a)
    \/ \E a \in TokenHeaders \cup BadHeaders : ProjectsRequest(a)
    \/ \E a \in TokenHeaders \cup BadHeaders : DashboardRequest(a)
    \/ \E a \in TokenHeaders \cup BadHeaders : ManageRequest(a)
    \/ \E a \in TokenHeaders \cup BadHeaders : MyBugsRequest(a)
    \/ \E a \in TokenHeaders \cup BadHeaders : ProfileRequest(a)

SpecToken == Init /\ [][NextToken]_vars

----------------------------------------------------------------------------
(* SpecIdentity: registrations, logins and changes of e-mail address that  *)
(* pass an address from one user to another, while time passes             *)

IdentityRegistrations ==
    [name : {"Nina New"}, email : {"user@bugify.com", "zed@bugify.com"},
     password : {"secret1"}, role : {"user"}]
IdentityProfileUpdates == [name : {None}, email : {"NEW@bugify.com", "user@bugify.com"}]
IdentityLogins ==
    [email : {"user@bugify.com", "new@bugify.com"}, password : {"user123", "secret1"},
     role : {"user"}]

IdentityRegister ==
    \E d \in IdentityRegistrations, now \in Times, salt \in Salts : register(d, now, salt)
IdentityLogin == \E c \in IdentityLogins : login(c)
IdentityUpdateMyProfile ==
    \E u \in {a \in Authenticated : a.role = "user"}, d \in IdentityProfileUpdates :
        update_my_profile(u, d)

NextIdentity ==
    \/ Tick
    \/ IdentityRegister
    \/ IdentityLogin
    \/ IdentityUpdateMyProfile

SpecIdentity == Init /\ [][NextIdentity]_vars

----------------------------------------------------------------------------
(* SpecErrors: every endpoint that writes, one request at a time, each     *)
(* with inputs that pass and inputs that fail each of its checks           *)

\* The bug the requests name: the first one created.
ErrBugId == 3

ErrRegister ==
    \E d \in {r \in Registrations :
                 r.email \in {"Admin@bugify.com", "New@bugify.com"} /\ r.password = "secret1"} :
        register(d, 1700000000, "salt9")
ErrLogin ==
    \E c \in {l \in Logins :
                 /\ l.email \in {"Admin@bugify.com", "ghost@bugify.com"}
                 /\ l.password = "admin123"} :
        login(c)
ErrUpdateMyProfile ==
    \E d \in {u \in ProfileUpdates : u.name = None /\ u.email # "zed@bugify.com"} :
        update_my_profile(UserById("user1"), d)
ErrChangePassword ==
    \E d \in {c \in PasswordChanges : c.new_password = "secret1"} :
        change_password(UserById("user1"), d, "salt9")
ErrCreateProject ==
    \E id \in {"admin1", "user1"}, n \in ProjectNames : create_project(UserById(id), n)
ErrDeleteProject ==
    \E id \in {"admin1", "user1"}, project_id \in {1, 4, 9} :
        delete_project(UserById(id), project_id)
ErrCreateBug == \E d \in BugCreates : create_bug(UserById("user1"), d)
ErrUpdateBug ==
    \E id \in {"dev1", "user1"} :
        update_bug(UserById(id), ErrBugId,
                   [status |-> "Resolved", assigned_to |-> None, priority |-> None])
ErrDeleteBug == \E id \in {"admin1", "dev1"} : delete_bug(UserById(id), ErrBugId)
ErrAssign ==
    \E id \in {"admin1", "dev1"}, a \in {"dev2", "ghost"} :
        assign_bug_to_developer(UserById(id), ErrBugId, a)
ErrStatusAdmin ==
    \E id \in {"admin1", "dev1"} : update_bug_status_admin(UserById(id), ErrBugId, "Closed")
ErrStatusMine ==
    \E id \in {"dev2", "user1"} : update_my_bug_status(UserById(id), ErrBugId, "Resolved")

NextErrors ==
    \/ ErrRegister
    \/ ErrLogin
    \/ ErrUpdateMyProfile
    \/ ErrChangePassword
    \/ ErrCreateProject
    \/ ErrDeleteProject
    \/ ErrCreateBug
    \/ ErrUpdateBug
    \/ ErrDeleteBug
    \/ ErrAssign
    \/ ErrStatusAdmin
    \/ ErrStatusMine
    \/ \E a \in BadHeaders : BugsRequest(a)
    \/ \E a \in BadHeaders : ProjectsRequest(a)
    \/ \E a \in BadHeaders : ManageRequest(a)
    \/ \E a \in BadHeaders : MyBugsRequest(a)
    \/ \E a \in BadHeaders : ProfileRequest(a)

SpecErrors == Init /\ [][NextErrors]_vars

----------------------------------------------------------------------------
(* Claims about who may change a bug                                       *)

\* A request of caller u on bug id that may write the bug's status.
StatusRequestBy(u, id) ==
    \/ \E d \in BugUpdates : update_bug(u, id, d)
    \/ \E s \in StatusInputs : update_bug_status_admin(u, id, s)
    \/ \E s \in StatusInputs : update_my_bug_status(u, id, s)

\* Any request of caller u to an endpoint of Spec.
RequestBy(u) ==
    \/ \E d \in BugCreates : create_bug(u, d)
    \/ \E id \in BugIdInputs :
        \/ StatusRequestBy(u, id)
        \/ delete_bug(u, id)
        \/ \E a \in AssignValues : assign_bug_to_developer(u, id, a)

\* C1: every stored bug's assigned_to is null or the id of an existing user
\* with role developer.
C1_AssigneeIsDeveloper ==
    \A b \in Range(bugs) :
        b.assigned_to = None \/ Found(users, [id |-> b.assigned_to, role |-> "developer"])

\* C2: a request of a developer who is not the assignee of the bug it names
\* leaves that bug's status unchanged.
C2_NonAssigneeKeepsStatus ==
    [][\A u \in Callers, id \in BugIdInputs :
        ( /\ u.role = "developer"
          /\ Found(bugs, [id |-> id])
          /\ find_one(bugs, [id |-> id]).assigned_to # u.id
          /\ StatusRequestBy(u, id) )
        => /\ Found(bugs', [id |-> id])
           /\ find_one(bugs', [id |-> id]).status = find_one(bugs, [id |-> id]).status]_vars

\* C3: a request of a developer or of a user leaves assigned_to of every
\* stored bug unchanged.
C3_OnlyAdminChangesAssignee ==
    [][\A u \in Callers :
        (u.role # "admin" /\ RequestBy(u))
        => \A i \in DOMAIN bugs :
             i \in DOMAIN bugs' /\ bugs'[i].assigned_to = bugs[i].assigned_to]_vars

\* The collection without its i-th document.
Without(coll, i) == [j \in 1..(Len(coll) - 1) |-> IF j < i THEN coll[j] ELSE coll[j + 1]]

\* C12: a request of a user-role caller leaves status, priority and
\* assigned_to of every stored bug as they were: POST /bugs and
\* DELETE /bugs/{id} change no such field, PUT /bugs/{id} changes nothing and
\* answers 403 when the bug is stored, and PUT /manage/bugs/{id}/assign,
\* PUT /manage/bugs/{id}/status and PUT /mybugs/{id}/status answer 403 and
\* change nothing.  (Each implication  request => effect  is written
\* effect \/ ~request, and a handler is tried only on the steps that carry
\* its response.)
C12_UserChangesNoBug ==
    [][\A u \in {c \in Callers : c.role = "user"} :
        /\ (\A i \in DOMAIN bugs :
                 /\ i \in DOMAIN bugs'
                 /\ bugs'[i].status = bugs[i].status
                 /\ bugs'[i].priority = bugs[i].priority
                 /\ bugs'[i].assigned_to = bugs[i].assigned_to)
           \/ /\ response'.op = "create_bug" =>
                    \A d \in PolicyBugCreates : ~create_bug(u, d)
              /\ response'.op = "delete_bug" =>
                    \A id \in BugIdInputs : ~delete_bug(u, id)
        /\ (response'.code = 403 /\ bugs' = bugs)
           \/ \A id \in BugIdInputs :
                 /\ response'.op = "update_bug" =>
                       \/ id \notin Ids(bugs) /\ bugs' = bugs
                       \/ \A d \in PolicyBugUpdates : ~update_bug(u, id, d)
                 /\ response'.op = "assign_bug_to_developer" =>
                       \A a \in PolicyAssignees : ~assign_bug_to_developer(u, id, a)
                 /\ response'.op = "update_bug_status_admin" =>
                       \A st \in StatusInputs : ~update_bug_status_admin(u, id, st)
                 /\ response'.op = "update_my_bug_status" =>
                       \A st \in StatusInputs : ~update_my_bug_status(u, id, st)]_vars

\* The last request was a PUT /bugs/{id} answered 403 while bugs 1, 2 and 3
\* are stored, and an earlier update has set a status to Resolved.
C12_Witness ==
    /\ response.op = "update_bug" /\ response.code = 403
    /\ Ids(bugs) = BugIdInputs
    /\ \E b \in Range(bugs) : b.status = "Resolved"

\* C13: a step that removes a bug is a DELETE /bugs/{id} of an admin on a
\* stored id, answered 204; DELETE /bugs/{id} of a developer or user answers
\* 403 and removes nothing whether or not the id is stored, and of an admin
\* on an id that is not stored answers 404 and removes nothing.
C13_OnlyAdminDeletes ==
    [][/\ (Len(bugs') < Len(bugs) \/ ~(Ids(bugs) \subseteq Ids(bugs'))) =>
            \E u \in Callers, id \in BugIdInputs :
                /\ u.role = "admin" /\ id \in Ids(bugs)
                /\ delete_bug(u, id) /\ response'.code = 204
       /\ \A u \in Callers, id \in BugIdInputs :
            (response'.op = "delete_bug" /\ delete_bug(u, id)) =>
                IF u.role # "admin" THEN response'.code = 403 /\ bugs' = bugs
                ELSE IF id \notin Ids(bugs) THEN response'.code = 404 /\ bugs' = bugs
                ELSE /\ response'.code = 204
                     /\ \E i \in DOMAIN bugs : bugs[i].id = id /\ bugs' = Without(bugs, i)]_vars

\* The last request was a DELETE /bugs/{id} answered 403 while bugs 1, 2 and
\* 3 are stored: the id it named is stored and stays stored.
C13_Witness ==
    /\ response.op = "delete_bug" /\ response.code = 403
    /\ Ids(bugs) = BugIdInputs

\* C15: PUT /manage/bugs/{id}/assign of an admin on a stored bug sets
\* assigned_to to null for a null value and to the given id when it is the id
\* of a stored developer; for every other string, the empty string included,
\* it answers 404 and leaves the bug unchanged.
C15_AssignValidated ==
    [][\A u \in Callers, id \in BugIdInputs, a \in AssignValues :
        (/\ u.role = "admin" /\ id \in Ids(bugs)
         /\ response'.op = "assign_bug_to_developer"
         /\ assign_bug_to_developer(u, id, a)) =>
            IF a = None \/ Found(users, [id |-> a, role |-> "developer"])
            THEN /\ response'.code = 200
                 /\ bugs' = update_one(bugs, [id |-> id],
                                    [assigned_to |-> a, updated_at |-> clock])
            ELSE response'.code = 404 /\ bugs' = bugs]_vars

\* C16: PUT /mybugs/{id}/status of a developer gives one and the same
\* response, 404 with the same detail, when the bug is stored but not
\* assigned to the caller and when no bug has the id, and changes nothing in
\* either case.
C16_UnassignedLooksAbsent ==
    [][\A u \in Callers, id \in BugIdInputs, st \in StatusInputs :
        (/\ u.role = "developer"
         /\ response'.op = "update_my_bug_status"
         /\ update_my_bug_status(u, id, st)) =>
            LET absent == id \notin Ids(bugs)
                unassigned == \E b \in Range(bugs) : b.id = id /\ b.assigned_to # u.id
                R == Error("update_my_bug_status", 404,
                           "Bug not found or not assigned to you")
            IN  /\ absent => response' = R /\ UNCHANGED <<users, projects, bugs>>
                /\ unassigned => response' = R /\ UNCHANGED <<users, projects, bugs>>]_vars

\* The last request was a PUT /mybugs/{id}/status answered 404 while bugs 1,
\* 2 and 3 are stored: the bug it named is stored and assigned to somebody
\* else or to nobody.
C16_Witness ==
    /\ response.op = "update_my_bug_status" /\ response.code = 404
    /\ Ids(bugs) = BugIdInputs

----------------------------------------------------------------------------
(* Claims about the project registry and id allocation                     *)

\* C5: delete_project by an admin answers 400 and changes nothing when a bug
\* references the project, removes exactly that project (200) when the
\* project exists and no bug references it, and answers 404 and changes
\* nothing when no project has the id.
C5_DeleteProjectGuard ==
    [][\A u \in Callers, pid \in ProjectIdInputs :
        (u.role = "admin" /\ delete_project(u, pid)) =>
            LET referenced == \E b \in Range(bugs) : b.project_id = pid
                exists == \E q \in Range(projects) : q.id = pid
            IN  /\ bugs' = bugs /\ users' = users
                /\ (exists /\ referenced) =>
                        response'.code = 400 /\ projects' = projects
                /\ (exists /\ ~referenced) =>
                        /\ response'.code = 200
                        /\ \E i \in DOMAIN projects :
                              projects[i].id = pid /\ projects' = Without(projects, i)
                /\ ~exists => response'.code = 404 /\ projects' = projects]_vars

\* Project 1, which the two seeded bugs reference, was deleted by the last
\* request: its bugs had been deleted before.
C5_Witness ==
    /\ response.op = "delete_project" /\ response.code = 200
    /\ 1 \notin Ids(projects)

\* C14: a step that changes the projects is a POST /projects or a
\* DELETE /projects/{id} of an admin; the same requests of a developer or a
\* user answer 403 and leave the projects unchanged.
C14_OnlyAdminChangesProjects ==
    [][/\ projects' # projects =>
            \E u \in Callers :
               /\ u.role = "admin"
               /\ \/ \E n \in ProjectNames : create_project(u, n)
                  \/ \E pid \in ProjectIdInputs : delete_project(u, pid)
       /\ \A u \in Callers : u.role # "admin" =>
            /\ response'.op = "create_project" =>
                  \A n \in ProjectNames :
                     create_project(u, n) => response'.code = 403 /\ projects' = projects
            /\ response'.op = "delete_project" =>
                  \A pid \in ProjectIdInputs :
                     delete_project(u, pid) => response'.code = 403 /\ projects' = projects]_vars

\* A POST /projects was answered 403 in a store where an admin has created a
\* project and deleted another before.
C14_Witness ==
    /\ response.op = "create_project" /\ response.code = 403
    /\ 4 \in Ids(projects) /\ Len(projects) = 3

\* C6: the id given to a newly stored bug (project) was never the id of an
\* earlier bug (project).
C6_IdsNeverReused ==
    [][/\ Len(bugs') > Len(bugs) => bugs'[Len(bugs')].id \notin issuedBugIds
       /\ Len(projects') > Len(projects) =>
              projects'[Len(projects')].id \notin issuedProjectIds]_vars

UniqueIds(coll) == \A i, j \in DOMAIN coll : coll[i].id = coll[j].id => i = j

MaxPlusOne(coll) ==
    IF Ids(coll) = {} THEN 1
    ELSE 1 + CHOOSE m \in Ids(coll) : \A n \in Ids(coll) : n <= m

\* C7: with requests handled one at a time no two stored bugs share an id,
\* no two stored projects share an id, and a newly created bug or project
\* gets max(stored ids)+1, or 1 when its collection is empty.
C7_UniqueMaxPlusOne ==
    /\ [](UniqueIds(bugs) /\ UniqueIds(projects))
    /\ [][/\ Len(bugs') > Len(bugs) =>
                /\ bugs' = Append(bugs, bugs'[Len(bugs')])
                /\ bugs'[Len(bugs')].id = MaxPlusOne(bugs)
          /\ Len(projects') > Len(projects) =>
                /\ projects' = Append(projects, projects'[Len(projects')])
                /\ projects'[Len(projects')].id = MaxPlusOne(projects)]_vars

\* A bug was just created with id 3 while only one other bug is stored.
C7_Witness ==
    /\ response.op = "create_bug" /\ response.code = 201
    /\ Len(bugs) = 2 /\ bugs[2].id = 3

----------------------------------------------------------------------------
(* Claims about interleaved requests                                       *)

\* C4: no stored bug's project_id names a project that is not stored.
C4_BugProjectExists == \A b \in Range(bugs) : b.project_id \in Ids(projects)

\* C8: the insert step of an in-flight create_bug (create_project) request
\* always succeeds: it answers 201 and appends a document with the id the
\* request read earlier, so when that id is stored already (a concurrent
\* request read the same latest id and inserted first) two stored
\* documents share the id afterwards.
C8_StaleIdInserted ==
    [][\A p \in Procs :
        /\ (pc[p] = "cb_insert" /\ pc'[p] = "idle") =>
              /\ response' = [op |-> "create_bug", code |-> 201, body |-> <<>>]
              /\ Len(bugs') = Len(bugs) + 1
              /\ SubSeq(bugs', 1, Len(bugs)) = bugs
              /\ bugs'[Len(bugs')].id = loc[p].next_id
              /\ loc[p].next_id \in Ids(bugs) => ~UniqueIds(bugs')
        /\ (pc[p] = "cp_insert" /\ pc'[p] = "idle") =>
              /\ response' = [op |-> "create_project", code |-> 201, body |-> <<>>]
              /\ Len(projects') = Len(projects) + 1
              /\ SubSeq(projects', 1, Len(projects)) = projects
              /\ projects'[Len(projects')].id = loc[p].next_id
              /\ loc[p].next_id \in Ids(projects) => ~UniqueIds(projects')]_vars

\* Two stored bugs share an id, and two stored projects with different
\* names share an id.
C8_Witness ==
    /\ \E i, j \in DOMAIN bugs : i # j /\ bugs[i].id = bugs[j].id
    /\ \E i, j \in DOMAIN projects :
          /\ i # j
          /\ projects[i].id = projects[j].id
          /\ projects[i].name # projects[j].name

----------------------------------------------------------------------------
(* Claims about the dashboard queries                                      *)

\* What the two query parameters of GET /dashboard/bugs ask for.
PassesFilters(b, project_id, status) ==
    /\ project_id \in {NoneInt, 0} \/ b.project_id = project_id
    /\ status \in {None, "", "all"} \/ b.status = status

\* The stored bugs (by position) a caller's role lets the caller see.
Visible(u) == {i \in DOMAIN bugs : u.role = "user" => bugs[i].reported_by = u.id}

\* C9: in every store state and for every combination of the project_id and
\* status filters, GET /dashboard/bugs returns to a user-role caller exactly
\* the matching bugs the caller reported, and to an admin or developer all
\* matching bugs.
C9_UserSeesOwnBugs ==
    \A u \in Callers, pid \in DashProjectFilters, st \in DashStatusFilters :
        LET body == get_bugs_body(u, pid, st) IN
        /\ u.role = "user" => \A b \in Range(body) : b.reported_by = u.id
        /\ Range(body) = {bugs[i] : i \in {j \in Visible(u) : PassesFilters(bugs[j], pid, st)}}
        /\ Len(body) = Cardinality({j \in Visible(u) : PassesFilters(bugs[j], pid, st)})

\* The last response lists bugs of different statuses and projects, all
\* reported by user1, while a bug reported by somebody else is stored: no
\* filter but the role scope can have left it out.
C9_Witness ==
    /\ response.op = "get_bugs"
    /\ \E a, b \in Range(response.body) :
          a.status # b.status /\ a.project_id # b.project_id
    /\ \A b \in Range(response.body) : b.reported_by = "user1"
    /\ \E b \in Range(bugs) : b.reported_by # "user1"

CountStatus(u, s) == Cardinality({i \in Visible(u) : bugs[i].status = s})

\* C10: GET /dashboard/stats returns total and the four per-status counts
\* over the bugs the caller reported when the caller's role is user, and
\* over all stored bugs for an admin or developer.
C10_StatsAreScoped ==
    \A u \in Callers :
        stats_body(u) = [total |-> Cardinality(Visible(u)),
                         open |-> CountStatus(u, "Open"),
                         in_progress |-> CountStatus(u, "In Progress"),
                         resolved |-> CountStatus(u, "Resolved"),
                         closed |-> CountStatus(u, "Closed")]

\* The last response counts two bugs, one Open and one Resolved, while three
\* bugs are stored: the counts are over the caller's own reports.
C10_Witness ==
    /\ response.op = "get_dashboard_stats"
    /\ Len(bugs) = 3
    /\ response.body.total = 2
    /\ response.body.open = 1 /\ response.body.resolved = 1

----------------------------------------------------------------------------
(* Claims about reading one bug and about /mybugs                          *)

\* C11: GET /bugs/{id} answers 404 to every caller when no bug has the id;
\* for a stored bug it returns the bug to an admin or a developer, and to a
\* user-role caller it returns the bug when the caller reported it and
\* answers 403 otherwise.
C11_GetBugAccess ==
    \A u \in Callers, id \in BugIdInputs :
        LET r == get_bug_result(u, id)
            stored == {b \in Range(bugs) : b.id = id}
        IN  /\ stored = {} => r.code = 404
            /\ stored # {} =>
                  \A b \in stored :
                     IF u.role = "user" /\ b.reported_by # u.id
                     THEN r.code = 403
                     ELSE r.code = 200 /\ r.body = b

\* user1 asked for a stored bug that somebody else reported and got 403.
C11_Witness ==
    /\ response.op = "get_bug" /\ response.code = 403
    /\ \E b \in Range(bugs) : b.reported_by # "user1"

\* The positions of the stored bugs assigned to u that pass the two filters.
AssignedMatching(u, project_id, status_filter) ==
    {i \in DOMAIN bugs :
        /\ bugs[i].assigned_to = u.id
        /\ PassesFilters(bugs[i], project_id, status_filter)}

\* C17: for every combination of project_id and status_filter, GET /mybugs
\* returns to a developer exactly the matching bugs whose assigned_to is the
\* caller's id; called by an admin or a user, GET /mybugs, GET /mybugs/stats,
\* GET /mybugs/projects and PUT /mybugs/{id}/status answer 403, the last
\* leaving the bugs unchanged.
C17_MyBugsScoped ==
    /\ [](\A u \in Callers :
            /\ \A pid \in MineProjectFilters, st \in MineStatusFilters :
                  LET r == get_my_bugs_result(u, pid, st) IN
                  IF u.role = "developer"
                  THEN /\ r.code = 200
                       /\ \A b \in Range(r.body) : b.assigned_to = u.id
                       /\ Range(r.body) = {bugs[i] : i \in AssignedMatching(u, pid, st)}
                       /\ Len(r.body) = Cardinality(AssignedMatching(u, pid, st))
                  ELSE r.code = 403
            /\ u.role # "developer" =>
                  /\ get_my_bugs_stats_result(u).code = 403
                  /\ get_my_projects_result(u).code = 403)
    /\ [][\A u \in Callers, id \in BugIdInputs, s \in StatusInputs :
            (u.role # "developer" /\ update_my_bug_status(u, id, s))
            => response'.code = 403 /\ bugs' = bugs]_vars

\* dev2 listed the bugs assigned to dev2 and got some, while a bug assigned
\* to dev1 is stored.
C17_Witness ==
    /\ response.op = "get_my_bugs" /\ response.code = 200
    /\ response.body # <<>>
    /\ \A b \in Range(response.body) : b.assigned_to = "dev2"
    /\ \E b \in Range(bugs) : b.assigned_to = "dev1"

----------------------------------------------------------------------------
(* Claims about registration, login and profiles                           *)

\* C18: with requests handled one at a time, in every state that register
\* and PUT /profile/me requests reach no two stored users have e-mail
\* addresses that are equal ignoring case.
C18_EmailsUnique ==
    \A i, j \in DOMAIN users :
        lower(users[i].email) = lower(users[j].email) => i = j

\* The stored users a login with these credentials names: e-mail address
\* (lower-cased) and role as given.
Named(credentials) ==
    {u \in Range(users) :
        u.email = lower(credentials.email) /\ u.role = credentials.role}

\* C19: in every store state a login with a registered address and a
\* password that verifies but a role the address is not registered under, a
\* login with a registered address and role but a password that does not
\* verify, and a login with an unregistered address all get the same
\* response (401, same detail, same headers); a login leaves the store
\* unchanged.
C19_LoginFailuresAlike ==
    /\ [](\A c \in Logins :
            LET holders == {u \in Range(users) : u.email = lower(c.email)}
                wrong_role ==
                    /\ \E u \in holders : verify_password(c.password, u.hashed_password)
                    /\ Named(c) = {}
                wrong_password ==
                    /\ Named(c) # {}
                    /\ \A u \in Named(c) : ~verify_password(c.password, u.hashed_password)
                unregistered == holders = {}
            IN  (wrong_role \/ wrong_password \/ unregistered)
                => login_result(c) = Unauthorized)
    /\ [][response'.op = "login" => UNCHANGED <<users, projects, bugs>>]_vars

\* A login was refused after a registration: the store holds an address
\* whose holder has another role than admin and developer, and the response
\* is the one refusal.
C19_Witness ==
    /\ response = Unauthorized
    /\ \E u \in Range(users) : u.email = "new@bugify.com"

\* C20: a login succeeds exactly when some stored user has the lower-cased
\* address and the role of the request and a digest the password verifies
\* against; the user record and the token's subject and role in the response
\* are that user's.
C20_LoginExactly ==
    \A c \in Logins :
        LET r == login_result(c)
            ok == {u \in Named(c) : verify_password(c.password, u.hashed_password)}
        IN  /\ r.code = 200 <=> ok # {}
            /\ r.code = 200 =>
                  \E u \in ok :
                     /\ r.body.user = UserResponse(u)
                     /\ r.body.access_token.payload.sub = u.email
                     /\ r.body.access_token.payload.role = u.role

----------------------------------------------------------------------------
(* Claims about password changes                                           *)

\* C21: PUT /profile/me/password is answered 400 when the current password of
\* the request does not verify against the caller's stored digest, and 400
\* when the new password verifies against the caller's stored digest; in
\* both cases the caller's stored digest stays as it was.
C21_PasswordChangeRejected ==
    [][\A c \in Authenticated, d \in PasswordChanges, salt \in Salts :
        (/\ response'.op = "change_password"
         /\ change_password(c, d, salt)
         /\ \/ ~verify_password(d.current_password, c.hashed_password)
            \/ verify_password(d.new_password, c.hashed_password))
        => /\ response'.code = 400
           /\ \A i \in DOMAIN users :
                 users[i] = c => users'[i].hashed_password = c.hashed_password]_vars

\* C22: after a successful PUT /profile/me/password from current password p
\* to new password q, a login of the caller with q and the caller's role
\* succeeds and a login with p is answered 401; no other request changes a
\* stored digest, so this lasts until the next successful password change.
C22_NewPasswordLogsIn ==
    /\ [][\A c \in Authenticated, d \in PasswordChanges, salt \in Salts :
            (/\ response'.op = "change_password"
             /\ response'.code = 200
             /\ change_password(c, d, salt))
            => /\ login_result([email |-> c.email, password |-> d.new_password,
                                role |-> c.role])'.code = 200
               /\ login_result([email |-> c.email, password |-> d.current_password,
                                role |-> c.role])'.code = 401]_vars
    /\ [][(response'.op = "change_password" /\ response'.code = 200)
            \/ \A i \in DOMAIN users :
                  users'[i].hashed_password = users[i].hashed_password]_vars

\* A header whose token does not pass: no bearer token at all, a malformed,
\* rewritten or foreign-signed one, or a token past its expiry instant.
FailsValidation(authorization) ==
    \/ authorization \in BadHeaders
    \/ authorization \in TokenHeaders /\ authorization.token.payload.exp < clock

\* C28: a request to an endpoint of the bugs, projects, dashboard, manage,
\* mybugs or profile router that carries no bearer token, or a malformed,
\* tampered or expired one, is answered 401 and leaves users, projects and
\* bugs as they are.
C28_NoTokenNoEntry ==
    [][\/ response'.code = 401 /\ UNCHANGED <<users, projects, bugs>>
       \/ \A a \in TokenHeaders \cup BadHeaders :
            ~(/\ FailsValidation(a)
              /\ \/ BugsRequest(a) \/ ProjectsRequest(a) \/ DashboardRequest(a)
                 \/ ManageRequest(a) \/ MyBugsRequest(a) \/ ProfileRequest(a))]_vars

\* At instant 5 the tokens of the first instant have expired and a request was
\* answered 401, in a store that requests with these tokens had changed
\* before: bug 2 is deleted and bug 1 is Closed.
C28_Witness ==
    /\ response.code = 401
    /\ response.body.detail = "Invalid or expired token"
    /\ clock = 5
    /\ Len(bugs) = 1
    /\ \E b \in Range(bugs) : b.id = 1 /\ b.status = "Closed"

\* C30: no step removes a user or changes the id or the role of a stored
\* user, so the stored ids only grow in number; a PUT /profile/me changes
\* nothing but names and e-mail addresses, a PUT /profile/me/password nothing
\* but password digests.
C30_UsersKeepIdAndRole ==
    /\ [][/\ Len(users') >= Len(users)
          /\ \A i \in DOMAIN users :
                users'[i].id = users[i].id /\ users'[i].role = users[i].role]_vars
    /\ [][LET kept(fields) ==
                /\ Len(users') = Len(users)
                /\ \A i \in DOMAIN users : \A f \in fields : users'[i][f] = users[i][f]
          IN  /\ response'.op = "update_my_profile"
                    => kept({"id", "role", "hashed_password"})
              /\ response'.op = "change_password"
                    => kept({"id", "role", "name", "email"})]_vars

\* A registered user has changed the password after the seeded user user1
\* changed name: the store holds more users than the seed, user1 is named
\* "Mike Moved", and the last answer is that of the password change.
C30_Witness ==
    /\ response.op = "change_password" /\ response.code = 200
    /\ Len(users) > Len(default_users)
    /\ \E u \in Range(users) : u.id = "user1" /\ u.name = "Mike Moved"

----------------------------------------------------------------------------
(* Claims about project names and about created bugs                       *)

\* C27: with requests handled one at a time no two stored projects have the
\* same name, letter for letter: a POST /projects of an admin with the name
\* of a stored project is answered 400 and inserts nothing, and one with a
\* name that differs from every stored name, be it by letter case only, is
\* answered 201 and stores a project of that name.
C27_ProjectNamesUnique ==
    /\ [](\A i, j \in DOMAIN projects : projects[i].name = projects[j].name => i = j)
    /\ [][\A u \in Callers, n \in ProjectNames :
            (/\ u.role = "admin"
             /\ response'.op = "create_project"
             /\ create_project(u, n))
            => IF \E p \in Range(projects) : p.name = n
               THEN response'.code = 400 /\ projects' = projects
               ELSE /\ response'.code = 201
                    /\ Len(projects') = Len(projects) + 1
                    /\ projects'[Len(projects')].name = n
                    /\ SubSeq(projects', 1, Len(projects)) = projects]_vars

\* A project named "bugify api" was stored next to the seeded "Bugify API",
\* and a second POST /projects with the name "bugify api" was answered 400.
C27_Witness ==
    /\ response.op = "create_project" /\ response.code = 400
    /\ \E p, q \in Range(projects) : p.name = "Bugify API" /\ q.name = "bugify api"

\* C23: every bug that POST /bugs stores, whatever the role of the caller,
\* has status Open, no assignee, the caller's id as reported_by, the
\* requested project_id, and as project_name the name the project of that id
\* has when the bug is created; the bugs stored before stay as they are.
C23_CreatedBugFields ==
    [][\A u \in Callers, project_id \in {1, 4, 9} :
        (/\ response'.op = "create_bug"
         /\ response'.code = 201
         /\ create_bug(u, [project_id |-> project_id, priority |-> "Medium"]))
        => /\ Len(bugs') = Len(bugs) + 1
           /\ SubSeq(bugs', 1, Len(bugs)) = bugs
           /\ LET new_bug == bugs'[Len(bugs')] IN
                /\ new_bug.status = "Open"
                /\ new_bug.assigned_to = None
                /\ new_bug.reported_by = u.id
                /\ new_bug.project_id = project_id
                /\ \E p \in Range(projects) : p.id = project_id
                /\ \A p \in Range(projects) :
                      p.id = project_id => new_bug.project_name = p.name]_vars

\* A developer has created a bug for project 4, a project an admin created
\* with the name "bugify api".
C23_Witness ==
    /\ response.op = "create_bug" /\ response.code = 201
    /\ \E b \in Range(bugs) :
          /\ b.reported_by = "dev1" /\ b.project_id = 4
          /\ b.project_name = "bugify api" /\ b.status = "Open"

\* C24: POST /bugs with a project_id that no stored project has is answered
\* 404 and leaves the bugs collection as it was.
C24_UnknownProjectRefused ==
    [][\A u \in Callers, project_id \in {1, 4, 9} :
        (/\ response'.op = "create_bug"
         /\ create_bug(u, [project_id |-> project_id, priority |-> "Medium"])
         /\ \A p \in Range(projects) : p.id # project_id)
        => response'.code = 404 /\ bugs' = bugs]_vars

\* A POST /bugs was answered 404 in a store from which the project with id 4
\* has been deleted again.
C24_Witness ==
    /\ response.op = "create_bug" /\ response.code = 404
    /\ 4 \in issuedProjectIds /\ 4 \notin Ids(projects)

----------------------------------------------------------------------------
(* Claims about status changes and time stamps                             *)

\* C25: whatever the status of a stored bug is, a PUT /manage/bugs/{id}/status
\* of an admin and a PUT /mybugs/{id}/status of the developer the bug is
\* assigned to are answered 200 and leave the bug with the status of the
\* request, for each of Open, In Progress, Resolved and Closed, the current
\* one included.
C25_AnyStatusFromAny ==
    [][\A u \in Callers, id \in BugIdInputs, s \in Statuses :
        /\ (/\ response'.op = "update_bug_status_admin"
            /\ update_bug_status_admin(u, id, s)
            /\ u.role = "admin" /\ id \in Ids(bugs))
           => /\ response'.code = 200
              /\ find_one(bugs', [id |-> id]).status = s
        /\ (/\ response'.op = "update_my_bug_status"
            /\ update_my_bug_status(u, id, s)
            /\ u.role = "developer"
            /\ \E b \in Range(bugs) : b.id = id /\ b.assigned_to = u.id)
           => /\ response'.code = 200
              /\ find_one(bugs', [id |-> id]).status = s]_vars

\* Both seeded bugs have left their seeded status by a developer's write:
\* bug 2, reassigned to dev2, has gone back from In Progress to Open, and
\* bug 1 is Closed.
C25_Witness ==
    /\ response.op = "update_my_bug_status" /\ response.code = 200
    /\ \E b, c \in Range(bugs) :
          /\ b.id = 2 /\ b.status = "Open" /\ b.assigned_to = "dev2"
          /\ c.id = 1 /\ c.status = "Closed" /\ c.assigned_to = "dev1"

\* C26: each PUT /bugs/{id}, PUT /manage/bugs/{id}/assign,
\* PUT /manage/bugs/{id}/status and PUT /mybugs/{id}/status that is answered
\* 200 leaves the bug with updated_at equal to the instant of the request;
\* as the clock never goes back, no step lowers the updated_at of a bug, and
\* no bug has an updated_at earlier than its created_at.
C26_UpdatedAtStamped ==
    /\ [](\A b \in Range(bugs) : b.created_at <= b.updated_at)
    /\ [][\A i \in DOMAIN bugs :
            i \in DOMAIN bugs' /\ bugs'[i].updated_at >= bugs[i].updated_at]_vars
    /\ [][\A id \in ClockBugIds :
            LET stamped == find_one(bugs', [id |-> id]).updated_at = clock
                ok(op) == response'.op = op /\ response'.code = 200
            IN  /\ \A d \in ClockBugUpdates :
                     (ok("update_bug") /\ update_bug(UserById("admin1"), id, d))
                        => stamped
                /\ (/\ ok("assign_bug_to_developer")
                    /\ assign_bug_to_developer(UserById("admin1"), id, "dev2"))
                        => stamped
                /\ (/\ ok("update_bug_status_admin")
                    /\ update_bug_status_admin(UserById("admin1"), id, "Resolved"))
                        => stamped
                /\ (/\ ok("update_my_bug_status")
                    /\ update_my_bug_status(UserById("dev2"), id, "Resolved"))
                        => stamped]_vars

\* Bug 3 was created at instant 4 and assigned at instant 5, and the seeded
\* bug 2, last updated at instant 1, was written at instant 5 as well.
C26_Witness ==
    /\ response.op = "assign_bug_to_developer" /\ response.code = 200
    /\ \E b, c \in Range(bugs) :
          /\ b.id = 3 /\ b.created_at = 4 /\ b.updated_at = 5 /\ b.assigned_to = "dev2"
          /\ c.id = 2 /\ c.created_at = 0 /\ c.updated_at = 5

\* What an update of the bug with the given id may change: the fields named,
\* of that bug; nothing when the answer is not 200.
Frame(id, named) ==
    /\ users' = users /\ projects' = projects
    /\ Len(bugs') = Len(bugs)
    /\ \A i \in DOMAIN bugs :
          IF bugs[i].id = id /\ response'.code = 200
          THEN \A f \in DOMAIN bugs[i] \ named : bugs'[i][f] = bugs[i][f]
          ELSE bugs'[i] = bugs[i]

\* C29: no step changes the id, project_id, project_name, reported_by or
\* created_at of a stored bug; an assign request changes assigned_to and
\* updated_at of the bug with the id of the request, a status request of
\* /manage or /mybugs its status and updated_at, a PUT /bugs/{id} those of
\* status, assigned_to and priority that the body gives a value, and
\* updated_at; every other bug, every project and every user stay as they
\* are.
C29_UpdatesTouchNamedFields ==
    /\ [][\A b \in Range(bugs), c \in Range(bugs') :
            c.id = b.id =>
                \A f \in {"project_id", "project_name", "reported_by", "created_at"} :
                    c[f] = b[f]]_vars
    /\ [][\A id \in ClockBugIds :
            /\ \A d \in PolicyBugUpdates :
                 (response'.op = "update_bug" /\ update_bug(UserById("admin1"), id, d))
                    => /\ Frame(id, {"updated_at"} \cup
                                    {f \in {"status", "assigned_to", "priority"} :
                                        d[f] # None})
                       /\ response'.code = 200 =>
                             \A f \in {"status", "assigned_to", "priority"} :
                                 d[f] # None => find_one(bugs', [id |-> id])[f] = d[f]
            /\ (/\ response'.op = "assign_bug_to_developer"
                /\ assign_bug_to_developer(UserById("admin1"), id, "dev2"))
                    => Frame(id, {"assigned_to", "updated_at"})
            /\ (/\ response'.op = "update_bug_status_admin"
                /\ update_bug_status_admin(UserById("admin1"), id, "Resolved"))
                    => Frame(id, {"status", "updated_at"})
            /\ (/\ response'.op = "update_my_bug_status"
                /\ update_my_bug_status(UserById("dev2"), id, "Resolved"))
                    => Frame(id, {"status", "updated_at"})]_vars

\* A PUT /bugs/2 that gave a priority only was answered 200 at instant 3: the
\* seeded status and assignee of bug 2 are still there.
C29_Witness ==
    /\ response.op = "update_bug" /\ response.code = 200
    /\ \E b \in Range(bugs) :
          /\ b.id = 2 /\ b.priority = "Low" /\ b.updated_at = 3
          /\ b.status = "In Progress" /\ b.assigned_to = "dev1"

----------------------------------------------------------------------------
(* Claims about tokens and the users they stand for                        *)

\* C31: a token issued at login stays valid until its expiry whatever happens
\* later: at every instant up to its exp, also after its owner has changed
\* the password, a request that bears it is authenticated as the owner.
C31_TokenOutlivesPassword ==
    \A id \in {"admin1", "dev1", "user1"} :
        LET token == StartupToken(UserById(id)) IN
        token.payload.exp >= clock =>
            get_current_user(Bearer(token)) = [code |-> 200, user |-> UserById(id)]

\* user1 has changed the password to secret1, and a later GET /dashboard/stats
\* at the expiry instant of the token was answered with the count of user1's
\* own reports, one bug of the two stored.
C31_Witness ==
    /\ UserById("user1").hashed_password = get_password_hash("secret1", "salt9")
    /\ clock = 3 + ACCESS_TOKEN_EXPIRE_MINUTES
    /\ response.op = "get_dashboard_stats" /\ response.code = 200
    /\ response.body.total = 1 /\ Len(bugs) = 2

\* C32: a registration answered 201 in a clock second in which a stored user
\* of the same role was registered gets that user's id although the e-mail
\* addresses differ: two successful registrations of one role within one
\* second share their id, and a store with two users of one id is reached.
C32_SameSecondSameId ==
    [][\A d \in Registrations, now \in Times, salt \in Salts :
        (response'.op = "register" /\ response'.code = 201 /\ register(d, now, salt)) =>
            LET same_second == {i \in DOMAIN users :
                                   /\ users[i].role = d.role
                                   /\ users[i].id = d.role \o ToString(now)}
                new == users'[Len(users')]
            IN  /\ Len(users') = Len(users) + 1
                /\ new.email = lower(d.email)
                /\ response'.body.id = new.id
                /\ \A i \in same_second :
                      users'[i].id = new.id /\ users'[i].email # new.email]_vars

\* The last registration was answered 201, and it is one of two stored users
\* with one id and different e-mail addresses.
C32_Witness ==
    /\ response.op = "register" /\ response.code = 201
    /\ \E i \in DOMAIN users :
          /\ i # Len(users)
          /\ users[i].id = users[Len(users)].id
          /\ users[i].email # users[Len(users)].email

----------------------------------------------------------------------------
(* Claims about interleaved requests on one bug                            *)

\* C33: the update_one of PUT /mybugs/{id}/status changes a bug only if the
\* bug is assigned to the calling developer when update_one runs, also when
\* an assignment by an admin has run between the handler's find and its
\* update_one.
C33_WriteOnlyWhileAssigned ==
    [][\A p \in Procs :
        (/\ pc[p] = "update_one"
         /\ loc[p].op = "update_my_bug_status"
         /\ bug_update_one(p)) =>
            \/ Found(bugs, [id |-> loc[p].bug_id, assigned_to |-> loc[p].current_user.id])
            \/ bugs' = bugs]_vars

\* C34: when the bug of a pending update request (PUT /bugs/{id}, manage
\* assign or status, mybugs status) has been deleted after the handler's find
\* and no bug has been created under its id since, the handler's update_one
\* writes nothing, the bug stays absent, and the request is not answered 200.
C34_UpdateAfterDeleteWritesNothing ==
    [][\A p \in Procs :
        (/\ pc[p] \in {"update_one", "refetch"}
         /\ ~Found(bugs, [id |-> loc[p].bug_id])
         /\ (bug_update_one(p) \/ bug_refetch(p))) =>
            /\ bugs' = bugs
            /\ pc[p] = "refetch" => response'.op = loc[p].op /\ response'.code # 200]_vars

\* Bug 2 is no longer stored; a PUT /manage/bugs/2/status that had found it
\* has been answered 500, and a PUT /mybugs/2/status that had found it is
\* about to call update_one.
C34_Witness ==
    /\ response.op = "update_bug_status_admin" /\ response.code = 500
    /\ ~Found(bugs, [id |-> RacedBugId])
    /\ \E q \in Procs :
          /\ pc[q] = "update_one"
          /\ loc[q].op = "update_my_bug_status" /\ loc[q].bug_id = RacedBugId

----------------------------------------------------------------------------
(* Claims about failed requests, profiles and project names                *)

\* C35: with requests handled one at a time, a request answered 400, 401, 403
\* or 404 leaves the users, projects and bugs collections as they were.
C35_ErrorsChangeNothing ==
    [][response'.code \in {400, 401, 403, 404} => UNCHANGED <<users, projects, bugs>>]_vars

\* The last request was a PUT /manage/bugs/3/assign answered 404 while bug 3
\* is stored: the developer it named is not stored, and bug 3 still has the
\* assignee an earlier assignment gave it.
C35_Witness ==
    /\ response.op = "assign_bug_to_developer" /\ response.code = 404
    /\ Found(bugs, [id |-> ErrBugId, assigned_to |-> "dev2"])

\* C36: the token a login issued to a user at the first instant of the server
\* never resolves to another user, whatever registrations, logins and
\* changes of e-mail address follow: get_current_user fails or returns the
\* user the token was issued to.
C36_TokenNamesItsOwner ==
    \A owner \in Range(default_users) :
        LET current_user == get_current_user(Bearer(StartupToken(owner))) IN
        current_user.code = 200 => current_user.user.id = owner.id

\* C37: a PUT /profile/me or PUT /profile/me/password changes the stored
\* record of the authenticated caller only: name, e-mail address and password
\* digest of every other stored user stay as they were.
C37_OnlyCallersRecord ==
    [][\A c \in Authenticated :
        LET others_kept ==
                \A i \in DOMAIN users :
                    i # FirstMatch(users, [email |-> c.email]) =>
                        /\ users'[i].name = users[i].name
                        /\ users'[i].email = users[i].email
                        /\ users'[i].hashed_password = users[i].hashed_password
        IN  /\ response'.op = "update_my_profile" =>
                  \A d \in ProfileUpdates : update_my_profile(c, d) => others_kept
            /\ response'.op = "change_password" =>
                  \A d \in PasswordChanges, salt \in Salts :
                      change_password(c, d, salt) => others_kept]_vars

----------------------------------------------------------------------------
(* Claims about statistics and about project names of bugs                 *)

\* C38: in every response of GET /dashboard/stats and GET /mybugs/stats total
\* is the sum of open, in_progress, resolved and closed, also when status
\* updates, creations and deletions of bugs run between the five counts.
C38_TotalIsSumOfCounts ==
    (response.op \in {"get_dashboard_stats", "get_my_bugs_stats"} /\ response.code = 200) =>
        response.body.total = response.body.open + response.body.in_progress
                                + response.body.resolved + response.body.closed

\* C39: with requests handled one at a time, every stored bug names a stored
\* project by project_id, and its project_name is the name of every stored
\* project with that id.
C39_BugNamesItsProject ==
    \A b \in Range(bugs) :
        /\ \E p \in Range(projects) : p.id = b.project_id
        /\ \A p \in Range(projects) : p.id = b.project_id => p.name = b.project_name

\* Project 2 was deleted and its id given to a new project of another name;
\* a bug created afterwards for project 2 carries the new name.
C39_Witness ==
    /\ response.op = "create_bug" /\ response.code = 201
    /\ \E b \in Range(bugs) : b.project_id = 2 /\ b.project_name = "bugify api"

====
